---- MODULE Spec2Model ----
(***************************************************************************)
(* A model of the threshold Damgard-Jurik cryptosystem, the Shamir secret  *)
(* sharing beneath it and the ShuffleSum STV tally built on top of it.     *)
(*                                                                         *)
(* The arithmetic is the code's arithmetic on small keys.  A call that     *)
(* raises is modelled by a result record whose err field names the         *)
(* exception; a call that returns has err = "none" and its value in v.     *)
(***************************************************************************)
EXTENDS Integers, Sequences, FiniteSets, TLC

VARIABLES pc, sh, dj, bl, el

vars == <<pc, sh, dj, bl, el>>

-----------------------------------------------------------------------------
(* Results of calls that may raise.                                        *)

Ok(x) == [err |-> "none", v |-> x]
Raise(e) == [err |-> e, v |-> 0]
IsOk(r) == r.err = "none"

Range(f) == {f[i] : i \in DOMAIN f}

Abs(a) == IF a < 0 THEN -a ELSE a

\* The sequences of k distinct elements of S.
Arrangements(S, k) ==
    {q \in [1..k -> S] : \A i, j \in 1..k : i # j => q[i] # q[j]}

-----------------------------------------------------------------------------
(* utils.py                                                                *)

\* Python's (a * b) % m on arbitrary-precision integers, for 0 < m < 2^30.
\* The product is taken in limbs so that no intermediate value leaves the
\* 32-bit integers of the model checker: at once when it fits, in two limbs
\* of 11 bits when m < 2^19, and bit by bit otherwise.
RECURSIVE MulMod(_, _, _)
MulMod(a, b, m) ==
    LET a0 == a % m
        b0 == b % m
    IN  IF b0 = 0 THEN 0
        ELSE IF a0 < 46341 /\ b0 < 46341
        THEN (a0 * b0) % m
        ELSE IF m <= 524288
        THEN ((((a0 * (b0 \div 2048)) % m) * 2048) + a0 * (b0 % 2048)) % m
        ELSE (((2 * MulMod(a0, b0 \div 2, m)) % m) + (b0 % 2) * a0) % m

\* The built-in pow(a, b, m) for b >= 0.
RECURSIVE pow(_, _, _)
pow(a, b, m) ==
    IF b = 0 THEN 1 % m
    ELSE LET h == pow(a, b \div 2, m)
             h2 == MulMod(h, h, m)
         IN  IF b % 2 = 1 THEN MulMod(h2, a, m) ELSE h2

\* math.gcd
RECURSIVE gcd(_, _)
gcd(a, b) == IF b = 0 THEN Abs(a) ELSE gcd(b, a % Abs(b))

\* prod
RECURSIVE prod(_)
prod(nums) == IF nums = <<>> THEN 1 ELSE Head(nums) * prod(Tail(nums))

\* math.factorial
RECURSIVE factorial(_)
factorial(k) == IF k <= 1 THEN 1 ELSE k * factorial(k - 1)

\* Python's // and %, which round towards minus infinity and give the
\* remainder the sign of the divisor.
FloorDiv(a, b) == IF b > 0 THEN a \div b ELSE (-a) \div (-b)
PyMod(a, b) == a - b * FloorDiv(a, b)

\* extended_euclidean: the while loop, from the state (a, b, x0, x1, y0, y1).
RECURSIVE EuclidLoop(_, _, _, _, _, _)
EuclidLoop(a, b, x0, x1, y0, y1) ==
    IF a = 0 THEN <<x0, y0>>
    ELSE LET q == FloorDiv(b, a)
         IN  EuclidLoop(PyMod(b, a), a, x1, x0 - q * x1, y1, y0 - q * y1)

extended_euclidean(a, b) == EuclidLoop(a, b, 0, 1, 1, 0)

\* inv_mod
inv_mod(a, m) ==
    LET a1 == IF a < 0 THEN m + a ELSE a
    IN  IF gcd(a1, m) # 1 THEN Raise("Exception")
        ELSE Ok(extended_euclidean(a1, m)[1] % m)

\* pow_mod
pow_mod(a, b, m) ==
    IF b < 0
    THEN LET ai == inv_mod(a, m)
         IN  IF IsOk(ai) THEN Ok(pow(ai.v, -b, m)) ELSE ai
    ELSE Ok(pow(a, b, m))

\* crm: x = sum of a_i * y_i * z_i with y_i = N // n_i and z_i = inv_mod(y_i, n_i).
RECURSIVE CrmSum(_, _, _, _)
CrmSum(a_list, n_list, N, i) ==
    IF i > Len(n_list) THEN Ok(0)
    ELSE LET y_i == N \div n_list[i]
             z_i == inv_mod(y_i, n_list[i])
             rest == CrmSum(a_list, n_list, N, i + 1)
         IN  IF ~IsOk(z_i) THEN z_i
             ELSE IF ~IsOk(rest) THEN rest
             ELSE Ok(a_list[i] * y_i * z_i.v + rest.v)

crm(a_list, n_list) == CrmSum(a_list, n_list, prod(n_list), 1)

-----------------------------------------------------------------------------
(* shamir.py                                                               *)

\* Polynomial.__call__: f_x accumulates c_i * x^i, coeffs[i] being the
\* coefficient of x^(i-1).
RECURSIVE PolyLoop(_, _, _, _, _)
PolyLoop(coeffs, modulus, x, i, f_x) ==
    IF i > Len(coeffs) THEN f_x
    ELSE PolyLoop(coeffs, modulus, x, i + 1,
                  (f_x + MulMod(coeffs[i], pow(x, i - 1, modulus), modulus)) % modulus)

Polynomial(coeffs, modulus, x) == PolyLoop(coeffs, modulus, x, 1, 0)

\* share_secret; rand is the sequence of the threshold - 1 values drawn by
\* randbelow(modulus).
share_secret(secret, modulus, threshold, n_shares, rand) ==
    IF ~(0 <= secret /\ secret < modulus) THEN Raise("ValueError")
    ELSE IF n_shares < threshold THEN Raise("ValueError")
    ELSE IF threshold < 1 THEN Raise("ValueError")
    ELSE LET coeffs == <<secret>> \o rand
         IN  Ok([x \in 1..n_shares |-> <<x, Polynomial(coeffs, modulus, x)>>])

\* reconstruct: the inner loop over j, for the share at position i.
RECURSIVE ReconstructProduct(_, _, _, _, _)
ReconstructProduct(shares, modulus, i, j, product) ==
    IF j > Len(shares) THEN Ok(product)
    ELSE IF i = j THEN ReconstructProduct(shares, modulus, i, j + 1, product)
    ELSE LET inv == inv_mod(shares[j][1] - shares[i][1], modulus)
         IN  IF ~IsOk(inv) THEN inv
             ELSE ReconstructProduct(shares, modulus, i, j + 1,
                                     MulMod(product * shares[j][1], inv.v, modulus))

\* reconstruct: the outer loop over i.
RECURSIVE ReconstructLoop(_, _, _, _)
ReconstructLoop(shares, modulus, i, secret) ==
    IF i > Len(shares) THEN Ok(secret)
    ELSE LET product == ReconstructProduct(shares, modulus, i, 1, 1)
         IN  IF ~IsOk(product) THEN product
             ELSE ReconstructLoop(shares, modulus, i + 1,
                                  (secret + MulMod(shares[i][2], product.v, modulus)) % modulus)

\* reconstruct with its outer loop started one share late.
reconstruct_skip_first(shares, modulus) == ReconstructLoop(shares, modulus, 2, 0)

reconstruct(shares, modulus) == ReconstructLoop(shares, modulus, 1, 0)


-----------------------------------------------------------------------------
(* damgard_jurik.py                                                        *)

\* n ** p
RECURSIVE n_pow(_, _)
n_pow(n, p) == IF p = 0 THEN 1 ELSE n * n_pow(n, p - 1)

\* PublicKey.__init__
PublicKey(n, s, m, threshold, delta) ==
    [n |-> n, s |-> s, m |-> m,
     n_s |-> n_pow(n, s), n_s_1 |-> n_pow(n, s) * n, n_s_m |-> n_pow(n, s) * m,
     threshold |-> threshold, delta |-> delta]

\* EncryptedNumber.__init__
EncryptedNumber(value, public_key) == [value |-> value, public_key |-> public_key]

\* PublicKey.encrypt, r being the value of randbelow(n - 1) + 1.
encrypt(public_key, m, r) ==
    LET c == MulMod(pow(public_key.n + 1, m, public_key.n_s_1),
                    pow(r, public_key.n_s, public_key.n_s_1),
                    public_key.n_s_1)
    IN  EncryptedNumber(c, public_key)

\* The values randbelow(n - 1) + 1 can take.
RandomR(public_key) == 1..(public_key.n - 1)

\* A sum that does not compare the keys.
add_any_key(self, other) ==
    Ok(EncryptedNumber(MulMod(self.value, other.value, self.public_key.n_s_1),
                       self.public_key))

\* EncryptedNumber.__add__
add(self, other) ==
    IF self.public_key # other.public_key THEN Raise("ValueError")
    ELSE Ok(EncryptedNumber(MulMod(self.value, other.value, self.public_key.n_s_1),
                            self.public_key))

\* EncryptedNumber.__sub__
sub(self, other) ==
    IF self.public_key # other.public_key THEN Raise("ValueError")
    ELSE LET inv == inv_mod(other.value, other.public_key.n_s_1)
         IN  IF ~IsOk(inv) THEN inv
             ELSE add(self, EncryptedNumber(inv.v, other.public_key))

\* EncryptedNumber.__mul__, for a scalar other >= 0.
mul(self, other) ==
    EncryptedNumber(pow(self.value, other, self.public_key.n_s_1), self.public_key)

\* EncryptedNumber.__truediv__
truediv(self, other) ==
    LET inv == inv_mod(other, self.public_key.n_s_1)
    IN  IF ~IsOk(inv) THEN inv ELSE Ok(mul(self, inv.v))

\* PrivateKeyShare.__init__
PrivateKeyShare(public_key, i, s_i) ==
    [public_key |-> public_key, i |-> i, s_i |-> s_i,
     two_delta_s_i |-> 2 * public_key.delta * s_i]

\* PrivateKeyShare.decrypt
share_decrypt(self, c) == pow(c.value, self.two_delta_s_i, self.public_key.n_s_1)

\* damgard_jurik_reduce: L, with its assertion.
L(b, n) == IF (b - 1) % n # 0 THEN Raise("AssertionError") ELSE Ok((b - 1) \div n)

\* damgard_jurik_reduce: the loop over k, from the state (i, t_1, t_2).
RECURSIVE ReduceInner(_, _, _, _, _, _)
ReduceInner(n, j, k, i, t_1, t_2) ==
    IF k > j THEN Ok(t_1)
    ELSE LET i1 == i - 1
             t_2n == MulMod(t_2, i1, n_pow(n, j))
             inv == inv_mod(factorial(k), n_pow(n, j))
         IN  IF ~IsOk(inv) THEN inv
             ELSE ReduceInner(n, j, k + 1, i1,
                              t_1 - MulMod(MulMod(t_2n, n_pow(n, k - 1), n_pow(n, j)),
                                           inv.v, n_pow(n, j)),
                              t_2n)

\* damgard_jurik_reduce: the loop over j.
RECURSIVE ReduceOuter(_, _, _, _, _)
ReduceOuter(a, s, n, j, i) ==
    IF j > s THEN Ok(i)
    ELSE LET t_1 == L(a % n_pow(n, j + 1), n)
         IN  IF ~IsOk(t_1) THEN t_1
             ELSE LET t == ReduceInner(n, j, 2, i, t_1.v, i)
                  IN  IF ~IsOk(t) THEN t ELSE ReduceOuter(a, s, n, j + 1, t.v)

damgard_jurik_reduce(a, s, n) == ReduceOuter(a, s, n, 1, 0)

\* PrivateKeyRing.__init__.  Turning the list into a set and the set back
\* into a list keeps the shares in an order the hash values decide: kept is
\* that list cut to threshold shares.
PrivateKeyRing(private_key_shares, kept) ==
    IF Len(private_key_shares) = 0 THEN Raise("ValueError")
    ELSE IF Cardinality({private_key_shares[k].public_key :
                             k \in DOMAIN private_key_shares}) > 1
    THEN Raise("ValueError")
    ELSE LET public_key == private_key_shares[1].public_key
             inv == inv_mod(4 * public_key.delta * public_key.delta, public_key.n_s)
         IN  IF Cardinality(Range(private_key_shares)) < public_key.threshold
             THEN Raise("ValueError")
             ELSE IF ~IsOk(inv) THEN inv
             ELSE Ok([public_key |-> public_key,
                      private_key_shares |-> kept,
                      i_list |-> [k \in DOMAIN kept |-> kept[k].i],
                      S |-> {kept[k].i : k \in DOMAIN kept},
                      inv_four_delta_squared |-> inv.v])

\* The lists list(set(private_key_shares))[:threshold] can be.
KeptShares(private_key_shares) ==
    IF private_key_shares = <<>> THEN {<<>>}
    ELSE LET all == Range(private_key_shares)
             t == private_key_shares[1].public_key.threshold
         IN  IF t < 0 THEN {<<>>}
             ELSE Arrangements(all, IF Cardinality(all) < t THEN Cardinality(all) ELSE t)

\* PrivateKeyRing.decrypt: lam, the loop over S_prime (left is what remains
\* of it).
RECURSIVE LamLoop(_, _, _, _)
LamLoop(public_key, i, left, l) ==
    IF left = {} THEN Ok(l)
    ELSE LET i_prime == CHOOSE x \in left : TRUE
             inv == inv_mod(i_prime - i, public_key.n_s_m)
         IN  IF ~IsOk(inv) THEN inv
             ELSE LamLoop(public_key, i, left \ {i_prime},
                          MulMod(l * i_prime, inv.v, public_key.n_s_m))

lam(self, i) ==
    LamLoop(self.public_key, i, self.S \ {i}, self.public_key.delta % self.public_key.n_s_m)

\* PrivateKeyRing.decrypt: the loop over zip(c_list, i_list).
RECURSIVE CombineLoop(_, _, _, _)
CombineLoop(self, c_list, k, c_prime) ==
    IF k > Len(c_list) THEN Ok(c_prime)
    ELSE LET l == lam(self, self.i_list[k])
         IN  IF ~IsOk(l) THEN l
             ELSE LET f == pow_mod(c_list[k], 2 * l.v, self.public_key.n_s_1)
                  IN  IF ~IsOk(f) THEN f
                      ELSE CombineLoop(self, c_list, k + 1,
                                       MulMod(c_prime, f.v, self.public_key.n_s_1))

\* PrivateKeyRing.decrypt
decrypt(self, c) ==
    LET c_list == [k \in DOMAIN self.private_key_shares |->
                       share_decrypt(self.private_key_shares[k], c)]
        c_prime == CombineLoop(self, c_list, 1, 1)
    IN  IF ~IsOk(c_prime) THEN c_prime
        ELSE LET red == damgard_jurik_reduce(c_prime.v, self.public_key.s, self.public_key.n)
             IN  IF ~IsOk(red) THEN red
                 ELSE Ok(MulMod(red.v, self.inv_four_delta_squared, self.public_key.n_s))

\* keygen.  p and q are the primes gen_safe_prime_pair returns, rand the
\* coefficients share_secret draws, and order the positions, in the list of
\* shares, of the shares the PrivateKeyRing keeps.
keygen(n_bits, s, threshold, n_shares, p, q, rand, order) ==
    IF n_bits < 16 THEN Raise("ValueError")
    ELSE IF s < 1 THEN Raise("ValueError")
    ELSE IF n_shares < threshold THEN Raise("ValueError")
    ELSE IF threshold < 1 THEN Raise("ValueError")
    ELSE LET p_prime == (p - 1) \div 2
             q_prime == (q - 1) \div 2
             n == p * q
             m == p_prime * q_prime
             n_s == n_pow(n, s)
             n_s_m == n_s * m
             d == crm(<<0, 1>>, <<m, n_s>>)
         IN  IF ~IsOk(d) THEN d
             ELSE LET shares == share_secret(d.v, n_s_m, threshold, n_shares, rand)
                  IN  IF ~IsOk(shares) THEN shares
                      ELSE LET delta == factorial(n_shares)
                               public_key == PublicKey(n, s, m, threshold, delta)
                               private_key_shares ==
                                   [k \in 1..n_shares |->
                                       PrivateKeyShare(public_key, shares.v[k][1], shares.v[k][2])]
                               private_key_ring ==
                                   PrivateKeyRing(private_key_shares,
                                                  [k \in DOMAIN order |-> private_key_shares[order[k]]])
                           IN  IF ~IsOk(private_key_ring) THEN private_key_ring
                               ELSE Ok([public_key |-> public_key,
                                        private_key_shares |-> private_key_shares,
                                        private_key_ring |-> private_key_ring.v])

-----------------------------------------------------------------------------
(* ballots.py: the ballot representations and the conversions between     *)
(* them.  A ballot is a table whose columns are candidates; its rows are   *)
(* sequences of the same length.                                           *)

\* A row of calls: the first that raised ends the row, which otherwise
\* yields the list of the values returned.
collect(results) ==
    LET raised == {i \in DOMAIN results : ~IsOk(results[i])}
    IN  IF raised # {}
        THEN results[CHOOSE i \in raised : \A k \in raised : i <= k]
        ELSE Ok([i \in DOMAIN results |-> results[i].v])

\* PrivateKeyRing.decrypt_list, and the comprehensions that decrypt a row.
decrypt_list(private_key_ring, c_list) ==
    collect([i \in DOMAIN c_list |-> decrypt(private_key_ring, c_list[i])])

\* Ballot.shuffle on the columns of a table: the Fisher-Yates loop, js[i + 1]
\* being the value of randbelow(n - i) + i in iteration i.
RECURSIVE ShuffleLoop(_, _, _)
ShuffleLoop(columns, js, i) ==
    IF i >= Len(columns) - 1 THEN columns
    ELSE LET j == js[i + 1]
             swapped == [k \in DOMAIN columns |->
                            IF k = i + 1 THEN columns[j + 1]
                            ELSE IF k = j + 1 THEN columns[i + 1]
                            ELSE columns[k]]
         IN  ShuffleLoop(swapped, js, i + 1)

\* Of an empty table shuffle returns no row at all, and the assignment that
\* unpacks its rows in the conversions raises ValueError.
shuffle(columns, js) == ShuffleLoop(columns, js, 0)

\* The draws of a shuffle that takes every j among all the columns.
ShuffleDrawsAmongAll(n) == [1..(IF n > 0 THEN n - 1 ELSE 0) -> 0..(n - 1)]

\* The values the randbelow calls of one shuffle of n columns can take.
ShuffleDraws(n) ==
    {js \in [1..(IF n > 0 THEN n - 1 ELSE 0) -> 0..(n - 1)] :
        \A i \in DOMAIN js : js[i] >= i - 1}

\* tmp.sort() on a list of tuples whose first component is an integer and
\* whose other components are EncryptedNumbers.  Tuples are compared
\* component by component: two tuples with the same integer that differ in
\* an EncryptedNumber are compared by <, which EncryptedNumber does not
\* define.  Otherwise the list is put in ascending order of the integer.
sort(tmp) ==
    IF \E i, j \in DOMAIN tmp : tmp[i][1] = tmp[j][1] /\ tmp[i] # tmp[j]
    THEN Raise("TypeError")
    ELSE LET place(i) == Cardinality({j \in DOMAIN tmp : tmp[j][1] < tmp[i][1]})
                         + Cardinality({j \in 1..i : tmp[j][1] = tmp[i][1]})
         IN  Ok([k \in DOMAIN tmp |-> tmp[CHOOSE i \in DOMAIN tmp : place(i) = k]])

CandidateOrderBallot(candidates, preferences, weight) ==
    [candidates |-> candidates, preferences |-> preferences, weight |-> weight]

FirstPreferenceBallot(candidates, preferences, weights) ==
    [candidates |-> candidates, preferences |-> preferences, weights |-> weights]

\* CandidateOrderBallot.to_first_preference, the decryptions being those of
\* the private key ring.  r_candidates, r_weights and r_preferences are the r
\* of the encryptions of steps 1, 5 and 6; js_1 and js_2 the draws of the
\* shuffles of steps 2 and 7.  The steps are written last first, each taking
\* the tables the steps before it left.
first_preference_return(step_9) ==
    IF ~IsOk(step_9) THEN step_9
    ELSE Ok(FirstPreferenceBallot([i \in DOMAIN step_9.v |-> step_9.v[i][1]],
                                  [i \in DOMAIN step_9.v |-> step_9.v[i][2]],
                                  [i \in DOMAIN step_9.v |-> step_9.v[i][3]]))

first_preference_step_9(step_7, step_8) ==
    IF ~IsOk(step_8) THEN step_8
    ELSE first_preference_return(
             sort([i \in DOMAIN step_7 |-> <<step_8.v[i], step_7[i][2], step_7[i][3]>>]))

first_preference_step_8(private_key_ring, step_7) ==
    first_preference_step_9(
        step_7, decrypt_list(private_key_ring, [i \in DOMAIN step_7 |-> step_7[i][1]]))

first_preference_step_5(ballot, private_key_ring, public_key, r_weights, r_preferences, js_2, step_4) ==
    IF ~IsOk(step_4) THEN step_4
    ELSE first_preference_step_8(
             private_key_ring,
             shuffle([i \in DOMAIN step_4.v |->
                         <<step_4.v[i][2],
                           encrypt(public_key, step_4.v[i][1], r_preferences[i]),
                           IF i = 1 THEN ballot.weight
                           ELSE encrypt(public_key, 0, r_weights[i])>>], js_2))

first_preference_step_4(ballot, private_key_ring, public_key, r_weights, r_preferences, js_2, step_2, step_3) ==
    IF ~IsOk(step_3) THEN step_3
    ELSE first_preference_step_5(
             ballot, private_key_ring, public_key, r_weights, r_preferences, js_2,
             sort([i \in DOMAIN step_2 |-> <<step_3.v[i], step_2[i][1]>>]))

first_preference_step_3(ballot, private_key_ring, public_key, r_weights, r_preferences, js_2, step_2) ==
    first_preference_step_4(
        ballot, private_key_ring, public_key, r_weights, r_preferences, js_2, step_2,
        decrypt_list(private_key_ring, [i \in DOMAIN step_2 |-> step_2[i][2]]))

candidate_order_to_first_preference(ballot, private_key_ring, public_key, r_candidates, js_1, r_weights, r_preferences, js_2) ==
    IF Len(ballot.candidates) = 0 THEN Raise("ValueError")
    ELSE first_preference_step_3(
             ballot, private_key_ring, public_key, r_weights, r_preferences, js_2,
             shuffle([i \in DOMAIN ballot.candidates |->
                         <<encrypt(public_key, ballot.candidates[i], r_candidates[i]),
                           ballot.preferences[i]>>], js_1))

CandidateEliminationBallot(candidates, preferences, eliminated, weight) ==
    [candidates |-> candidates, preferences |-> preferences,
     eliminated |-> eliminated, weight |-> weight]

\* CandidateOrderBallot.to_candidate_elimination, eliminated being a list of
\* plaintext 0 and 1.  r_eliminated, r_candidates and r_preferences are the r
\* of the encryptions of steps 1, 2 and 6; js the draws of the shuffle.
candidate_elimination_step_6(ballot, public_key, r_preferences, step_5) ==
    IF ~IsOk(step_5) THEN step_5
    ELSE Ok(CandidateEliminationBallot(
                [i \in DOMAIN step_5.v |-> step_5.v[i][2]],
                [i \in DOMAIN step_5.v |->
                    encrypt(public_key, step_5.v[i][1], r_preferences[i])],
                [i \in DOMAIN step_5.v |-> step_5.v[i][3]],
                ballot.weight))

candidate_elimination_step_5(ballot, public_key, r_preferences, step_3, step_4) ==
    IF ~IsOk(step_4) THEN step_4
    ELSE candidate_elimination_step_6(
             ballot, public_key, r_preferences,
             sort([i \in DOMAIN step_3 |-> <<step_4.v[i], step_3[i][1], step_3[i][3]>>]))

candidate_elimination_step_4(ballot, private_key_ring, public_key, r_preferences, step_3) ==
    candidate_elimination_step_5(
        ballot, public_key, r_preferences, step_3,
        decrypt_list(private_key_ring, [i \in DOMAIN step_3 |-> step_3[i][2]]))

candidate_order_to_candidate_elimination(ballot, eliminated, private_key_ring, public_key, r_eliminated, r_candidates, js, r_preferences) ==
    IF Len(ballot.candidates) = 0 THEN Raise("ValueError")
    ELSE candidate_elimination_step_4(
             ballot, private_key_ring, public_key, r_preferences,
             shuffle([i \in DOMAIN ballot.candidates |->
                         <<encrypt(public_key, ballot.candidates[i], r_candidates[i]),
                           ballot.preferences[i],
                           encrypt(public_key, eliminated[i], r_eliminated[i])>>], js))

\* The conversion back returning the preference of the first column as the
\* weight.
candidate_order_return_other_weight(ballot, step_3) ==
    IF ~IsOk(step_3) THEN step_3
    ELSE Ok(CandidateOrderBallot([i \in DOMAIN step_3.v |-> step_3.v[i][1]],
                                 [i \in DOMAIN step_3.v |-> step_3.v[i][2]],
                                 step_3.v[1][2]))

\* CandidateEliminationBallot.to_candidate_order; js are the draws of the
\* shuffle.
candidate_order_return(ballot, step_3) ==
    IF ~IsOk(step_3) THEN step_3
    ELSE Ok(CandidateOrderBallot([i \in DOMAIN step_3.v |-> step_3.v[i][1]],
                                 [i \in DOMAIN step_3.v |-> step_3.v[i][2]],
                                 ballot.weight))

candidate_order_step_3(ballot, step_1, step_2) ==
    IF ~IsOk(step_2) THEN step_2
    ELSE candidate_order_return(
             ballot,
             sort([i \in DOMAIN step_1 |-> <<step_2.v[i], step_1[i][2], step_1[i][3]>>]))

candidate_order_step_2(ballot, private_key_ring, step_1) ==
    candidate_order_step_3(
        ballot, step_1,
        decrypt_list(private_key_ring, [i \in DOMAIN step_1 |-> step_1[i][1]]))

candidate_elimination_to_candidate_order(ballot, private_key_ring, js) ==
    IF Len(ballot.candidates) = 0 THEN Raise("ValueError")
    ELSE candidate_order_step_2(
             ballot, private_key_ring,
             shuffle([i \in DOMAIN ballot.candidates |->
                         <<ballot.candidates[i], ballot.preferences[i],
                           ballot.eliminated[i]>>], js))

-----------------------------------------------------------------------------
(* protocols.py: the steps of the ShuffleSum tally.                        *)

\* Iterating a set of small non-negative integers that was built by adding
\* its members in ascending order, as CPython does it.  A set of fewer than
\* five members is a table of 8 slots, iterated slot by slot: the member h is
\* put in slot h % 8 or, that slot being taken, in the next free slot of the
\* probe sequence i -> (5 * i + 1 + perturb) % 8, perturb being h shifted
\* right by 5 bits at every probe.  The fifth member makes the table grow to
\* 32 slots, in which every member below 32 has the slot of its value.
SetEmpty == -1

RECURSIVE SetSlot(_, _, _)
SetSlot(table, i, perturb) ==
    IF table[i] = SetEmpty THEN i
    ELSE SetSlot(table, (5 * i + 1 + perturb \div 32) % 8, perturb \div 32)

RECURSIVE Ascending(_)
Ascending(S) ==
    IF S = {} THEN <<>>
    ELSE LET least == CHOOSE x \in S : \A y \in S : x <= y
         IN  <<least>> \o Ascending(S \ {least})

RECURSIVE SetAdd(_, _, _)
SetAdd(table, members, k) ==
    IF k > Len(members) THEN table
    ELSE SetAdd([table EXCEPT ![SetSlot(table, members[k] % 8, members[k])] = members[k]],
                members, k + 1)

SetTable(S) == SetAdd([i \in 0..7 |-> SetEmpty], Ascending(S), 1)

iterate(S) ==
    IF Cardinality(S) >= 5 THEN Ascending(S)
    ELSE SelectSeq([i \in 1..8 |-> SetTable(S)[i - 1]], LAMBDA h : h # SetEmpty)

\* sum((fpb.weights[i] for fpb in fpb_ballots), zero), i counted from 1.
RECURSIVE SumWeights(_, _, _, _)
SumWeights(fpb_ballots, i, zero, b) ==
    IF b = 0 THEN Ok(zero)
    ELSE LET rest == SumWeights(fpb_ballots, i, zero, b - 1)
         IN  IF ~IsOk(rest) THEN rest
             ELSE add(rest.v, fpb_ballots[b].weights[i])

\* compute_first_preference_tallies once the ballots are converted: the
\* column sums and their decryption.  r_zero is the r of encrypt(0).
first_preference_tallies(cob_ballots, fpb_ballots, private_key_ring, public_key, r_zero) ==
    LET encrypted_tallies ==
            collect([i \in 1..Len(cob_ballots[1].candidates) |->
                        SumWeights(fpb_ballots, i, encrypt(public_key, 0, r_zero),
                                   Len(fpb_ballots))])
    IN  IF ~IsOk(encrypted_tallies) THEN encrypted_tallies
        ELSE decrypt_list(private_key_ring, encrypted_tallies.v)

\* lcm of two integers (cryptovote/utils.py) and of a list of integers.
lcm_2(a, b) == (a * b) \div gcd(a, b)

RECURSIVE lcm(_)
lcm(nums) ==
    IF Len(nums) = 1 THEN nums[1]
    ELSE lcm_2(nums[1], lcm(Tail(nums)))

\* reweight_and_convert_ballot: the loop over the columns, i counted from 1.
RECURSIVE ReweightLoop(_, _, _, _, _, _, _)
ReweightLoop(fpb, d_lcm, elected, tallies, quota, new_weight, i) ==
    IF i > Len(fpb.candidates) THEN Ok(new_weight)
    ELSE LET scaled == mul(fpb.weights[i], d_lcm)
             weight_i == IF fpb.candidates[i] \in elected
                         THEN truediv(mul(scaled, tallies[i] - quota), tallies[i])
                         ELSE Ok(scaled)
         IN  IF ~IsOk(weight_i) THEN weight_i
             ELSE LET summed == add(new_weight, weight_i.v)
                  IN  IF ~IsOk(summed) THEN summed
                      ELSE ReweightLoop(fpb, d_lcm, elected, tallies, quota, summed.v, i + 1)

reweight_and_convert_ballot(fpb, d_lcm, elected, tallies, quota, zero) ==
    LET new_weight == ReweightLoop(fpb, d_lcm, elected, tallies, quota, zero, 1)
    IN  IF ~IsOk(new_weight) THEN new_weight
        ELSE Ok(CandidateOrderBallot(fpb.candidates, fpb.preferences, new_weight.v))

\* reweight_votes; r_zero is the r of encrypt(0).
reweight_votes_return(cob_ballots, d_lcm) ==
    IF ~IsOk(cob_ballots) THEN cob_ballots
    ELSE Ok([cob_ballots |-> cob_ballots.v, d_lcm |-> d_lcm])

reweight_votes_map(fpb_ballots, elected, quota, tallies, zero, d_lcm) ==
    reweight_votes_return(
        collect([b \in DOMAIN fpb_ballots |->
                    reweight_and_convert_ballot(fpb_ballots[b], d_lcm, elected, tallies,
                                                quota, zero)]),
        d_lcm)

reweight_votes(fpb_ballots, elected, quota, tallies, public_key, r_zero) ==
    IF Len(fpb_ballots) = 0 THEN Raise("ValueError")
    ELSE LET candidates == fpb_ballots[1].candidates
             chosen == SelectSeq([i \in DOMAIN candidates |-> i],
                                 LAMBDA i : candidates[i] \in elected)
         IN  IF chosen = <<>> THEN Raise("TypeError")
             ELSE reweight_votes_map(fpb_ballots, elected, quota, tallies,
                                     encrypt(public_key, 0, r_zero),
                                     lcm([k \in DOMAIN chosen |-> tallies[chosen[k]]]))

\* update_preferences: the loop over the columns, i counted from 1.
RECURSIVE UpdateLoop(_, _, _, _)
UpdateLoop(ceb, preferences, prefix_sum, i) ==
    IF i > Len(ceb.candidates) THEN Ok(preferences)
    ELSE LET summed == add(prefix_sum, ceb.eliminated[i])
         IN  IF ~IsOk(summed) THEN summed
             ELSE LET lowered == sub(preferences[i], summed.v)
                  IN  IF ~IsOk(lowered) THEN lowered
                      ELSE UpdateLoop(ceb, [preferences EXCEPT ![i] = lowered.v],
                                      summed.v, i + 1)

update_preferences(ceb, zero) ==
    LET preferences == UpdateLoop(ceb, ceb.preferences, zero, 1)
    IN  IF ~IsOk(preferences) THEN preferences
        ELSE Ok([ceb EXCEPT !.preferences = preferences.v])

\* remove_candidates; remaining holds the indices, counted from 0, in the
\* order the set remaining_candidate_indices is iterated.
remove_candidates(cob, remaining) ==
    [cob EXCEPT !.candidates = [k \in DOMAIN remaining |-> cob.candidates[remaining[k] + 1]],
                !.preferences = [k \in DOMAIN remaining |-> cob.preferences[remaining[k] + 1]]]

-----------------------------------------------------------------------------
(* Bounds of the model.                                                    *)

\* share_secret and reconstruct are exercised with every modulus up to:
MaxModulus == 7
\* and with at most this many shares:
MaxShares == 3

-----------------------------------------------------------------------------
(* Secret sharing on its own: a secret is shared, then some of the shares  *)
(* are handed to reconstruct, in any order.                                *)

NoShares == [secret |-> 0, modulus |-> 1, threshold |-> 0, n_shares |-> 0,
             shares |-> <<>>, picked |-> <<>>, out |-> Raise("unset")]

\* The cryptosystem's state before a key is generated.
NoKey == [args |-> <<>>, a_list |-> <<>>, n_list |-> <<>>, m |-> 0,
          n |-> 0, s |-> 0, i |-> 0, public_key |-> PublicKey(1, 1, 1, 1, 1), shares |-> <<>>,
          ring |-> Raise("unset"), list |-> <<>>,
          op |-> "none", a |-> 0, ra |-> 0, b |-> 0, rb |-> 0, k |-> 0,
          x |-> Raise("unset"), y |-> Raise("unset"),
          c |-> Raise("unset"), out |-> Raise("unset")]

\* The ballot table before a ballot is cast.
NoBallot == [candidates |-> <<>>, pi |-> <<>>, w |-> 0, drawn |-> 0, non_units |-> 0,
             conversion_non_units |-> 0,
             ballot |-> Raise("unset"), fpb |-> Raise("unset"),
             eliminated |-> <<>>, ceb |-> Raise("unset"), cob |-> Raise("unset")]

\* The tally before an election is set up.
NoElection ==
    [candidates |-> <<>>, stop_candidate |-> 0, seats_0 |-> 0, pis |-> <<>>, ws |-> <<>>,
     cob_ballots |-> <<>>, fpb_ballots |-> <<>>, ceb_ballots |-> <<>>,
     c_rem |-> <<>>, quota |-> 0, seats |-> 0, offset |-> 0, result |-> <<>>, round |-> 0,
     tallies |-> <<>>, elected |-> {}, candidate_set |-> {},
     eliminated |-> <<>>, remaining |-> <<>>, zero |-> 0, i |-> 0,
     non_units |-> 0, cast_non_units |-> 0, raised_in |-> "none", out |-> Raise("unset"),
     direct |-> FALSE, before |-> <<>>, d_lcm |-> 0, q |-> 0,
     factor |-> 1, history |-> <<>>]

InitShamir ==
    /\ pc = "shamir"
    /\ sh = NoShares
    /\ dj = NoKey
    /\ bl = NoBallot
    /\ el = NoElection

\* share_secret(secret, modulus, threshold, n_shares), every argument and
\* every random coefficient drawn from the bounded sets; calls with invalid
\* arguments included.
ShareSecret ==
    /\ pc = "shamir"
    /\ \E modulus \in 1..MaxModulus, n_shares \in 1..MaxShares :
       \E secret \in 0..modulus, threshold \in 0..(n_shares + 1) :
       \E rand \in [1..(IF threshold >= 1 THEN threshold - 1 ELSE 0) -> 0..(modulus - 1)] :
          LET shares == share_secret(secret, modulus, threshold, n_shares, rand)
          IN  /\ sh' = [NoShares EXCEPT !.secret = secret, !.modulus = modulus,
                                        !.threshold = threshold, !.n_shares = n_shares,
                                        !.shares = IF IsOk(shares) THEN shares.v ELSE <<>>]
              /\ pc' = IF IsOk(shares) THEN "shared" ELSE "share_rejected"
    /\ UNCHANGED <<dj, bl, el>>

\* reconstruct(shares, modulus) on at least threshold of the shares, with
\* distinct indices, in any order.
Reconstruct ==
    /\ pc = "shared"
    /\ \E k \in sh.threshold..sh.n_shares :
       \E picked \in Arrangements(1..sh.n_shares, k) :
          /\ sh' = [sh EXCEPT !.picked = picked,
                              !.out = reconstruct([i \in 1..k |-> sh.shares[picked[i]]],
                                                  sh.modulus)]
          /\ pc' = "reconstructed"
    /\ UNCHANGED <<dj, bl, el>>

NextShamir == ShareSecret \/ Reconstruct

SpecShamir == InitShamir /\ [][NextShamir]_vars

\* The indices handed to reconstruct differ pairwise by numbers that have an
\* inverse modulo the modulus.
DifferencesInvertible ==
    \A i, j \in 1..Len(sh.picked) :
        i # j => gcd(sh.picked[j] - sh.picked[i], sh.modulus) = 1

-----------------------------------------------------------------------------
(* Bounds of the cryptosystem's model.                                     *)

\* The primes gen_safe_prime_pair draws from.  keygen asks for primes of 16
\* bits and more, which the 32-bit integers of the model checker cannot
\* hold; these are the safe primes gen_safe_prime(3) returns.
KeyPrimes == {7, 11}
\* s is at most:
MaxS == 2
\* a key has at most this many shares:
MaxKeyShares == 3
\* randbelow(k) is drawn from 0..MaxDraw and k - 1:
MaxDraw == 0
\* plaintexts are 0..MaxPlain and n^s - 1:
MaxPlain == 1
\* the r of an encryption is drawn from 1..MaxR:
MaxR == 7
\* scalars are 0..MaxScalar:
MaxScalar == 7

RandBelow(k) == {x \in 0..(k - 1) : x <= MaxDraw \/ x = k - 1}
Plaintexts(public_key) == {x \in 0..(public_key.n_s - 1) : x <= MaxPlain \/ x = public_key.n_s - 1}
DrawR(public_key) == {r \in RandomR(public_key) : r <= MaxR}

-----------------------------------------------------------------------------
(* The cryptosystem: a key is generated, a ring is built from some of its  *)
(* shares, numbers are encrypted, combined and decrypted.                  *)

InitDJ ==
    /\ pc = "dj"
    /\ dj = NoKey
    /\ sh = NoShares
    /\ bl = NoBallot
    /\ el = NoElection

\* keygen(n_bits, s, threshold, n_shares)
Keygen ==
    /\ pc = "dj"
    /\ \E n_bits \in {15, 16}, s \in 0..MaxS, n_shares \in 1..MaxKeyShares :
       \E threshold \in 0..(n_shares + 1), p \in KeyPrimes :
       \E q \in KeyPrimes \ {p} :
       \E rand \in [1..(IF threshold >= 1 THEN threshold - 1 ELSE 0) ->
                        RandBelow(n_pow(p * q, s) * ((p - 1) \div 2) * ((q - 1) \div 2))] :
       \E order \in Arrangements(1..n_shares, IF threshold \in 1..n_shares THEN threshold ELSE 0) :
          LET key == keygen(n_bits, s, threshold, n_shares, p, q, rand, order)
          IN  /\ dj' = IF IsOk(key)
                       THEN [NoKey EXCEPT !.args = <<n_bits, s, threshold, n_shares>>,
                                          !.public_key = key.v.public_key,
                                          !.shares = key.v.private_key_shares,
                                          !.ring = Ok(key.v.private_key_ring)]
                       ELSE [NoKey EXCEPT !.args = <<n_bits, s, threshold, n_shares>>,
                                          !.ring = key]
              /\ pc' = IF IsOk(key) THEN "keyed" ELSE "keygen_raised"
    /\ UNCHANGED <<sh, bl, el>>

\* PrivateKeyRing(private_key_shares), for a list of shares of the key.
NewRing ==
    /\ pc = "keyed"
    /\ \E len \in 0..Len(dj.shares) :
       \E list \in [1..len -> Range(dj.shares)] :
       \E kept \in KeptShares(list) :
          /\ dj' = [dj EXCEPT !.ring = PrivateKeyRing(list, kept), !.list = list]
          /\ pc' = "ringed"
    /\ UNCHANGED <<sh, bl, el>>

\* public_key.encrypt(a).  A number encrypted for a ring that NewRing built
\* is only decrypted; the numbers that are combined are decrypted by the
\* ring keygen returned.
Encrypt ==
    /\ pc \in {"keyed", "ringed"}
    /\ IsOk(dj.ring)
    /\ \E a \in Plaintexts(dj.public_key), r \in DrawR(dj.public_key) :
          dj' = [dj EXCEPT !.op = "encrypt", !.a = a, !.ra = r,
                           !.x = Ok(encrypt(dj.public_key, a, r)),
                           !.c = Ok(encrypt(dj.public_key, a, r))]
    /\ pc' = IF pc = "keyed" THEN "encrypted" ELSE "encrypted_for_ring"
    /\ UNCHANGED <<sh, bl, el>>

\* public_key.encrypt(b), the second operand of a sum or a difference.
EncryptOther ==
    /\ pc = "encrypted"
    /\ \E b \in Plaintexts(dj.public_key), r \in DrawR(dj.public_key) :
          dj' = [dj EXCEPT !.b = b, !.rb = r,
                           !.y = Ok(encrypt(dj.public_key, b, r))]
    /\ pc' = "encrypted_two"
    /\ UNCHANGED <<sh, bl, el>>

\* x + y
Add ==
    /\ pc = "encrypted_two"
    /\ dj' = [dj EXCEPT !.op = "add", !.c = add(dj.x.v, dj.y.v)]
    /\ pc' = "computed"
    /\ UNCHANGED <<sh, bl, el>>

\* x - y
Sub ==
    /\ pc = "encrypted_two"
    /\ dj' = [dj EXCEPT !.op = "sub", !.c = sub(dj.x.v, dj.y.v)]
    /\ pc' = "computed"
    /\ UNCHANGED <<sh, bl, el>>

\* x * k
Mul ==
    /\ pc = "encrypted"
    /\ \E k \in 0..MaxScalar :
          dj' = [dj EXCEPT !.op = "mul", !.k = k, !.c = Ok(mul(dj.x.v, k))]
    /\ pc' = "computed"
    /\ UNCHANGED <<sh, bl, el>>

\* x / k
Div ==
    /\ pc = "encrypted"
    /\ \E k \in 0..MaxScalar :
          dj' = [dj EXCEPT !.op = "div", !.k = k, !.c = truediv(dj.x.v, k)]
    /\ pc' = "computed"
    /\ UNCHANGED <<sh, bl, el>>

\* private_key_ring.decrypt(c)
Decrypt ==
    /\ pc \in {"encrypted", "encrypted_for_ring", "computed"}
    /\ IsOk(dj.c)
    /\ dj' = [dj EXCEPT !.out = decrypt(dj.ring.v, dj.c.v)]
    /\ pc' = "decrypted"
    /\ UNCHANGED <<sh, bl, el>>

NextDJ ==
    \/ Keygen
    \/ NewRing
    \/ Encrypt
    \/ EncryptOther
    \/ Add
    \/ Sub
    \/ Mul
    \/ Div
    \/ Decrypt

SpecDJ == InitDJ /\ [][NextDJ]_vars

-----------------------------------------------------------------------------
(* The properties of the cryptosystem.                                     *)

\* r is a unit modulo n: the Z_n^* the comment of PublicKey.encrypt names.
UnitR(r) == gcd(r, dj.public_key.n) = 1

\* The indices of the shares in the list NewRing was given.
ListIndices == {dj.list[k].i : k \in DOMAIN dj.list}

\* C1: for every key keygen returns, every plaintext m in [0, n^s) and every
\* r that PublicKey.encrypt can draw, decrypt(encrypt(m)) returns m.
C1_RoundTrip ==
    (pc = "decrypted" /\ dj.op = "encrypt" /\ dj.list = <<>>) => dj.out = Ok(dj.a)

\* C2: a ring is built from a list of the key's shares exactly when the list
\* holds at least threshold distinct indices, and a ring so built decrypts
\* every ciphertext to its plaintext, whichever shares it keeps.
C2_ThresholdRing ==
    /\ pc = "ringed" =>
          (IsOk(dj.ring) <=> Cardinality(ListIndices) >= dj.public_key.threshold)
    /\ (pc = "decrypted" /\ dj.op = "encrypt" /\ dj.list # <<>>) => dj.out = Ok(dj.a)

\* C3: decrypt(encrypt(a) + encrypt(b)) = (a + b) mod n^s.
C3_Add ==
    (pc = "decrypted" /\ dj.op = "add") => dj.out = Ok((dj.a + dj.b) % dj.public_key.n_s)

\* C4: encrypt(a) - encrypt(b) is a ciphertext, and it decrypts to
\* (a - b) mod n^s.
C4_Sub ==
    /\ (pc = "computed" /\ dj.op = "sub") => IsOk(dj.c)
    /\ (pc = "decrypted" /\ dj.op = "sub") =>
          dj.out = Ok((dj.a - dj.b) % dj.public_key.n_s)

\* C5: decrypt(encrypt(a) * k) = (a * k) mod n^s for every scalar k >= 0.
C5_Mul ==
    (pc = "decrypted" /\ dj.op = "mul") => dj.out = Ok((dj.a * dj.k) % dj.public_key.n_s)

\* C6: for k >= 1 with gcd(k, n) = 1 and a = k * q, encrypt(a) / k is a
\* ciphertext that decrypts to q; for gcd(k, n) # 1 the division raises.
C6_Div ==
    /\ (pc = "computed" /\ dj.op = "div") =>
          (IsOk(dj.c) <=> gcd(dj.k, dj.public_key.n) = 1)
    /\ (pc = "decrypted" /\ dj.op = "div" /\ dj.k >= 1 /\ dj.a % dj.k = 0) =>
          dj.out = Ok(dj.a \div dj.k)

\* What holds of the same operations when every r drawn is a unit modulo n.
UnitRoundTrip ==
    (pc = "decrypted" /\ dj.op = "encrypt" /\ UnitR(dj.ra)) => dj.out = Ok(dj.a)
UnitAdd ==
    (pc = "decrypted" /\ dj.op = "add" /\ UnitR(dj.ra) /\ UnitR(dj.rb)) =>
        dj.out = Ok((dj.a + dj.b) % dj.public_key.n_s)
UnitSub ==
    /\ (pc = "computed" /\ dj.op = "sub" /\ UnitR(dj.rb)) => IsOk(dj.c)
    /\ (pc = "decrypted" /\ dj.op = "sub" /\ UnitR(dj.ra) /\ UnitR(dj.rb)) =>
          dj.out = Ok((dj.a - dj.b) % dj.public_key.n_s)
UnitMul ==
    (pc = "decrypted" /\ dj.op = "mul" /\ UnitR(dj.ra)) =>
        dj.out = Ok((dj.a * dj.k) % dj.public_key.n_s)
UnitDiv ==
    (pc = "decrypted" /\ dj.op = "div" /\ UnitR(dj.ra) /\ dj.k >= 1 /\ dj.a % dj.k = 0) =>
        dj.out = Ok(dj.a \div dj.k)
\* decrypt rejects, by the assertion of damgard_jurik_reduce, the encryptions
\* whose r is not a unit.
NonUnitRejected ==
    (pc = "decrypted" /\ dj.op = "encrypt" /\ ~UnitR(dj.ra)) =>
        dj.out = Raise("AssertionError")

-----------------------------------------------------------------------------
(* One ballot: it is cast as the voting front end and the tests build it,  *)
(* and converted.                                                          *)

\* a ballot has at most this many candidates, labelled 1..MaxCandidates:
MaxCandidates == 3
\* the weight of a ballot is at most:
MaxWeight == 2
\* at most this many encryptions of a run draw an r other than 1:
MaxOtherDraws == 1

\* The key of the election: keygen(16, 1, 1, 1) when gen_safe_prime_pair
\* returns 7 and 11.
ElectionKey == keygen(16, 1, 1, 1, 7, 11, <<>>, <<1>>).v

\* The r other than 1 that the encryptions of a ballot draw: the least
\* other unit modulo n and the least non-unit.
OtherR(public_key) ==
    LET units == {r \in DrawR(public_key) \ {1} : gcd(r, public_key.n) = 1}
        others == {r \in DrawR(public_key) : gcd(r, public_key.n) # 1}
        least(S) == {r \in S : \A r2 \in S : r <= r2}
    IN  least(units) \cup least(others)

\* The least non-unit alone.
NonUnitR(public_key) == {r \in OtherR(public_key) : gcd(r, public_key.n) # 1}

\* The r of k encryptions in a row, of which at most budget are not 1 but
\* one of others.
RECURSIVE RDraws(_, _, _)
RDraws(others, k, budget) ==
    IF k = 0 THEN {<<>>}
    ELSE {Append(d, 1) : d \in RDraws(others, k - 1, budget)}
         \cup (IF budget > 0
               THEN {Append(d, r) : d \in RDraws(others, k - 1, budget - 1), r \in others}
               ELSE {})

\* The number of r other than 1 in a sequence of draws, and the number of r
\* that are not units modulo n.
Others(rs) == Cardinality({i \in DOMAIN rs : rs[i] # 1})
NonUnits(public_key, rs) == Cardinality({i \in DOMAIN rs : gcd(rs[i], public_key.n) # 1})

\* The candidate lists: labels in ascending order (vote.py sorts them, and
\* the conversions leave them sorted).
CandidateLists ==
    {cs \in UNION {[1..m -> 1..MaxCandidates] : m \in 1..MaxCandidates} :
        \A i, j \in DOMAIN cs : i < j => cs[i] < cs[j]}

\* The rankings of m candidates: the permutations of 1..m.
Rankings(m) == {pi \in [1..m -> 1..m] : \A i, j \in 1..m : i # j => pi[i] # pi[j]}

InitBallot ==
    /\ pc = "ballot"
    /\ bl = NoBallot
    /\ sh = NoShares
    /\ dj = NoKey
    /\ el = NoElection

\* CandidateOrderBallot(candidates, encrypt_list(preferences), encrypt(weight))
Cast ==
    /\ pc = "ballot"
    /\ \E candidates \in CandidateLists, w \in 1..MaxWeight :
       \E pi \in Rankings(Len(candidates)) :
       \E rs \in RDraws(OtherR(ElectionKey.public_key), Len(candidates) + 1, MaxOtherDraws) :
          bl' = [bl EXCEPT
                   !.candidates = candidates, !.pi = pi, !.w = w,
                   !.drawn = Others(rs),
                   !.non_units = NonUnits(ElectionKey.public_key, rs),
                   !.ballot = Ok(CandidateOrderBallot(
                       candidates,
                       [i \in DOMAIN pi |-> encrypt(ElectionKey.public_key, pi[i], rs[i])],
                       encrypt(ElectionKey.public_key, w, rs[Len(candidates) + 1])))]
    /\ pc' = "cast"
    /\ UNCHANGED <<sh, dj, el>>

\* candidate_order_to_first_preference(ballot, private_key_ring, public_key)
ToFirstPreference ==
    /\ pc = "cast"
    /\ LET n == Len(bl.candidates)
       IN  \E rs \in RDraws(OtherR(ElectionKey.public_key), 3 * n, MaxOtherDraws - bl.drawn) :
           \E js_1 \in ShuffleDraws(n), js_2 \in ShuffleDraws(n) :
              bl' = [bl EXCEPT
                       !.drawn = bl.drawn + Others(rs),
                       !.non_units = bl.non_units + NonUnits(ElectionKey.public_key, rs),
                       !.conversion_non_units = NonUnits(ElectionKey.public_key, rs),
                       !.fpb = candidate_order_to_first_preference(
                                   bl.ballot.v, ElectionKey.private_key_ring,
                                   ElectionKey.public_key,
                                   [i \in 1..n |-> rs[i]], js_1,
                                   [i \in 1..n |-> rs[n + i]],
                                   [i \in 1..n |-> rs[2 * n + i]], js_2)]
    /\ pc' = "first_preference"
    /\ UNCHANGED <<sh, dj, el>>

NextBallot == Cast \/ ToFirstPreference

SpecBallot == InitBallot /\ [][NextBallot]_vars

\* The plaintext of a ciphertext, as the election's ring decrypts it.
Plain(c) == decrypt(ElectionKey.private_key_ring, c)

\* The ballot that was cast decrypts to the ranking pi and the weight w.
BallotDecrypts ==
    /\ IsOk(bl.ballot)
    /\ Plain(bl.ballot.v.weight) = Ok(bl.w)
    /\ \A i \in DOMAIN bl.pi : Plain(bl.ballot.v.preferences[i]) = Ok(bl.pi[i])

\* Every r the conversion drew is a unit modulo n.
ConversionUnits == bl.conversion_non_units = 0

\* C10: for a ballot that decrypts to pi and w, the conversion returns a FirstPreferenceBallot with the candidate list
\* of the input in the same order, the same decrypted preference for each
\* candidate, and weights[i] decrypting to w if pi[i] = 1 and to 0 otherwise,
\* whatever its shuffles draw.
C10_FirstPreference ==
    (pc = "first_preference" /\ BallotDecrypts) =>
        /\ IsOk(bl.fpb)
        /\ bl.fpb.v.candidates = bl.candidates
        /\ \A i \in DOMAIN bl.candidates :
              /\ Plain(bl.fpb.v.preferences[i]) = Ok(bl.pi[i])
              /\ Plain(bl.fpb.v.weights[i]) = Ok(IF bl.pi[i] = 1 THEN bl.w ELSE 0)

\* The same when every r drawn in the conversion is a unit modulo n.
UnitFirstPreference ==
    (pc = "first_preference" /\ BallotDecrypts /\ ConversionUnits) =>
        /\ IsOk(bl.fpb)
        /\ bl.fpb.v.candidates = bl.candidates
        /\ \A i \in DOMAIN bl.candidates :
              /\ Plain(bl.fpb.v.preferences[i]) = Ok(bl.pi[i])
              /\ Plain(bl.fpb.v.weights[i]) = Ok(IF bl.pi[i] = 1 THEN bl.w ELSE 0)

-----------------------------------------------------------------------------
(* An election: ballots are cast and stv_tally counts them.  The ballots   *)
(* of a pool.imap are converted one after the other.                       *)

\* an election has at most this many ballots:
MaxBallots == 2
\* and at most this many preferences on all its ballots together:
MaxCells == 4
\* and at most this many seats:
MaxSeats == 2

\* The candidate lists of an election: 1..m.
ElectionCandidates == {[i \in 1..m |-> i] : m \in 1..MaxCandidates}

InitSTV ==
    /\ pc = "election"
    /\ el = NoElection
    /\ sh = NoShares
    /\ dj = NoKey
    /\ bl = NoBallot

\* The ballots of an election, as Cast builds them; the stop candidate is no
\* candidate (0) or the last one.
CastBallots ==
    /\ pc = "election"
    /\ \E candidates \in ElectionCandidates, seats \in 1..MaxSeats :
       \E B \in {b \in 0..MaxBallots : b * Len(candidates) <= MaxCells} :
       \E stop_candidate \in {0, Len(candidates)} :
       \E pis \in [1..B -> Rankings(Len(candidates))], ws \in [1..B -> 1..MaxWeight] :
       \E rs \in RDraws(NonUnitR(ElectionKey.public_key), B * (Len(candidates) + 1),
                        MaxOtherDraws) :
          LET m == Len(candidates)
          IN  el' = [el EXCEPT
                       !.candidates = candidates, !.stop_candidate = stop_candidate,
                       !.seats_0 = seats, !.pis = pis, !.ws = ws,
                       !.non_units = Others(rs), !.cast_non_units = Others(rs),
                       !.cob_ballots =
                           [b \in 1..B |-> CandidateOrderBallot(
                               candidates,
                               [i \in 1..m |-> encrypt(ElectionKey.public_key, pis[b][i],
                                                       rs[(b - 1) * (m + 1) + i])],
                               encrypt(ElectionKey.public_key, ws[b], rs[b * (m + 1)]))]]
    /\ pc' = "cast"
    /\ UNCHANGED <<sh, dj, bl>>

\* The state in which a call raised e.
Raised(e, in) == [el EXCEPT !.out = e, !.raised_in = in]

\* The test of the while loop of stv_tally.
LoopTest(c_rem, offset, seats) ==
    IF Len(c_rem) - offset > seats THEN "to_first_preference" ELSE "remaining"

\* stv_tally up to its loop.
StvTally ==
    /\ pc = "cast"
    /\ IF Len(el.cob_ballots) = 0
       THEN /\ el' = Raised(Raise("ValueError"), "stv_tally")
            /\ pc' = "raised"
       ELSE LET c_rem == el.cob_ballots[1].candidates
                quota == Len(el.cob_ballots) \div (el.seats_0 + 1) + 1
                offset == IF el.stop_candidate \in Range(c_rem) THEN 1 ELSE 0
            IN  /\ el' = [el EXCEPT !.c_rem = c_rem, !.quota = quota, !.seats = el.seats_0,
                                    !.result = <<>>, !.offset = offset, !.round = 0,
                                    !.i = 1, !.fpb_ballots = <<>>]
                /\ pc' = LoopTest(c_rem, offset, el.seats_0)
    /\ UNCHANGED <<sh, dj, bl>>

\* compute_first_preference_tallies: the conversion of ballot i, fpb being
\* what the conversion returned and rs the r it drew.
FirstPreferenceConverted(fpb, rs) ==
    IF IsOk(fpb)
    THEN /\ el' = [el EXCEPT !.fpb_ballots = Append(@, fpb.v),
                             !.non_units = @ + Others(rs),
                             !.i = IF el.i = Len(el.cob_ballots) THEN 1 ELSE @ + 1]
         /\ pc' = IF el.i = Len(el.cob_ballots) THEN "tally" ELSE "to_first_preference"
    ELSE /\ el' = [Raised(fpb, "compute_first_preference_tallies")
                      EXCEPT !.non_units = @ + Others(rs)]
         /\ pc' = "raised"

ConvertToFirstPreference ==
    /\ pc = "to_first_preference"
    /\ LET n == Len(el.cob_ballots[el.i].candidates)
       IN  \E rs \in RDraws(NonUnitR(ElectionKey.public_key), 3 * n,
                            MaxOtherDraws - el.non_units) :
           \E js_1 \in ShuffleDraws(n), js_2 \in ShuffleDraws(n) :
              FirstPreferenceConverted(
                  candidate_order_to_first_preference(
                      el.cob_ballots[el.i], ElectionKey.private_key_ring,
                      ElectionKey.public_key,
                      [i \in 1..n |-> rs[i]], js_1,
                      [i \in 1..n |-> rs[n + i]],
                      [i \in 1..n |-> rs[2 * n + i]], js_2),
                  rs)
    /\ UNCHANGED <<sh, dj, bl>>

\* The election check with > in the place of >=.
TalliedStrict(tallies, rs) ==
    IF IsOk(tallies)
    THEN LET elected == {el.c_rem[i] : i \in {k \in DOMAIN el.c_rem :
                             /\ el.c_rem[k] # el.stop_candidate
                             /\ tallies.v[k] > el.quota}}
         IN  /\ el' = [el EXCEPT !.tallies = tallies.v, !.elected = elected,
                                 !.non_units = @ + Others(rs)]
             /\ pc' = IF elected # {} THEN "elected" ELSE "lowest"
    ELSE /\ el' = [Raised(tallies, "compute_first_preference_tallies")
                      EXCEPT !.non_units = @ + Others(rs)]
         /\ pc' = "raised"

\* compute_first_preference_tallies: the sums and their decryption; then
\* the election check of stv_tally.
Tallied(tallies, rs) ==
    IF IsOk(tallies)
    THEN LET elected == {el.c_rem[i] : i \in {k \in DOMAIN el.c_rem :
                             /\ el.c_rem[k] # el.stop_candidate
                             /\ tallies.v[k] >= el.quota}}
         IN  /\ el' = [el EXCEPT !.tallies = tallies.v, !.elected = elected,
                                 !.non_units = @ + Others(rs)]
             /\ pc' = IF elected # {} THEN "elected" ELSE "lowest"
    ELSE /\ el' = [Raised(tallies, "compute_first_preference_tallies")
                      EXCEPT !.non_units = @ + Others(rs)]
         /\ pc' = "raised"

Tally ==
    /\ pc = "tally"
    /\ \E rs \in RDraws(NonUnitR(ElectionKey.public_key), 1, MaxOtherDraws - el.non_units) :
          Tallied(first_preference_tallies(el.cob_ballots, el.fpb_ballots,
                                           ElectionKey.private_key_ring,
                                           ElectionKey.public_key, rs[1]),
                  rs)
    /\ UNCHANGED <<sh, dj, bl>>

\* stv_tally, some candidate being elected: the result, the seats, the
\* reweighting and the quota.
Reweighted(reweighted, rs) ==
    IF IsOk(reweighted)
    THEN /\ el' = [el EXCEPT !.result = @ \o iterate(el.elected),
                             !.seats = @ - Cardinality(el.elected),
                             !.cob_ballots = reweighted.v.cob_ballots,
                             !.d_lcm = reweighted.v.d_lcm, !.q = el.quota,
                             !.factor = @ * reweighted.v.d_lcm,
                             !.history = Append(@, [elected |-> TRUE, set |-> el.elected]),
                             !.quota = @ * reweighted.v.d_lcm,
                             !.candidate_set = el.elected,
                             !.non_units = @ + Others(rs)]
         /\ pc' = "eliminate"
    ELSE /\ el' = [Raised(reweighted, "reweight_votes")
                      EXCEPT !.result = @ \o iterate(el.elected),
                             !.seats = @ - Cardinality(el.elected),
                             !.non_units = @ + Others(rs)]
         /\ pc' = "raised"

Elect ==
    /\ pc = "elected"
    /\ \E rs \in RDraws(NonUnitR(ElectionKey.public_key), 1, MaxOtherDraws - el.non_units) :
          Reweighted(reweight_votes(el.fpb_ballots, el.elected, el.quota, el.tallies,
                                    ElectionKey.public_key, rs[1]),
                     rs)
    /\ UNCHANGED <<sh, dj, bl>>

\* stv_tally, no candidate being elected: the candidate with the fewest
\* votes, the first of them in the list.
Lowest ==
    /\ pc = "lowest"
    /\ LET js == {j \in DOMAIN el.c_rem : el.c_rem[j] # el.stop_candidate}
       IN  IF js = {}
           THEN /\ el' = Raised(Raise("TypeError"), "stv_tally")
                /\ pc' = "raised"
           ELSE LET i == CHOOSE j \in js :
                            \A k \in js : \/ el.tallies[j] < el.tallies[k]
                                          \/ el.tallies[j] = el.tallies[k] /\ j <= k
                IN  /\ el' = [el EXCEPT !.candidate_set = {el.c_rem[i]},
                                          !.history = Append(@, [elected |-> FALSE,
                                                                 set |-> {el.c_rem[i]}])]
                    /\ pc' = "eliminate"
    /\ UNCHANGED <<sh, dj, bl>>

\* eliminate_candidate_set up to its conversions: the elimination tags, the
\* indices that remain and the zero of update_preferences.
Eliminate ==
    /\ pc = "eliminate"
    /\ \E rs \in RDraws(NonUnitR(ElectionKey.public_key), 1, MaxOtherDraws - el.non_units) :
          LET candidates == el.cob_ballots[1].candidates
              eliminated == [i \in DOMAIN candidates |->
                                IF candidates[i] \in el.candidate_set THEN 1 ELSE 0]
          IN  el' = [el EXCEPT !.before = el.cob_ballots,
                               !.eliminated = eliminated,
                               !.remaining = iterate({i - 1 : i \in {k \in DOMAIN candidates :
                                                                     eliminated[k] = 0}}),
                               !.zero = encrypt(ElectionKey.public_key, 0, rs[1]),
                               !.ceb_ballots = <<>>, !.i = 1,
                               !.non_units = @ + Others(rs)]
    /\ pc' = "to_candidate_elimination"
    /\ UNCHANGED <<sh, dj, bl>>

\* eliminate_candidate_set: the conversion of ballot i, ceb being what the
\* conversion returned and rs the r it drew.
CandidateEliminationConverted(ceb, rs) ==
    IF IsOk(ceb)
    THEN /\ el' = [el EXCEPT !.ceb_ballots = Append(@, ceb.v),
                             !.non_units = @ + Others(rs),
                             !.i = IF el.i = Len(el.cob_ballots) THEN 1 ELSE @ + 1]
         /\ pc' = IF el.i = Len(el.cob_ballots) THEN "update_preferences"
                  ELSE "to_candidate_elimination"
    ELSE /\ el' = [Raised(ceb, "eliminate_candidate_set")
                      EXCEPT !.non_units = @ + Others(rs)]
         /\ pc' = "raised"

ConvertToCandidateElimination ==
    /\ pc = "to_candidate_elimination"
    /\ LET n == Len(el.cob_ballots[el.i].candidates)
       IN  \E rs \in RDraws(NonUnitR(ElectionKey.public_key), 3 * n,
                            MaxOtherDraws - el.non_units) :
           \E js \in ShuffleDraws(n) :
              CandidateEliminationConverted(
                  candidate_order_to_candidate_elimination(
                      el.cob_ballots[el.i], el.eliminated,
                      ElectionKey.private_key_ring, ElectionKey.public_key,
                      [i \in 1..n |-> rs[i]], [i \in 1..n |-> rs[n + i]], js,
                      [i \in 1..n |-> rs[2 * n + i]]),
                  rs)
    /\ UNCHANGED <<sh, dj, bl>>

\* eliminate_candidate_set: update_preferences on ballot i, ceb being what
\* it returned.
PreferencesUpdated(ceb) ==
    IF IsOk(ceb)
    THEN /\ el' = [el EXCEPT !.ceb_ballots[el.i] = ceb.v,
                             !.i = IF el.i = Len(el.ceb_ballots) THEN 1 ELSE @ + 1]
         /\ pc' = IF el.i = Len(el.ceb_ballots) THEN "to_candidate_order"
                  ELSE "update_preferences"
    ELSE /\ el' = Raised(ceb, "eliminate_candidate_set")
         /\ pc' = "raised"

UpdatePreferences ==
    /\ pc = "update_preferences"
    /\ PreferencesUpdated(update_preferences(el.ceb_ballots[el.i], el.zero))
    /\ UNCHANGED <<sh, dj, bl>>

\* eliminate_candidate_set: the conversion back of ballot i, cob being what
\* the conversion returned.
CandidateOrderConverted(cob) ==
    IF IsOk(cob)
    THEN /\ el' = [el EXCEPT !.cob_ballots[el.i] = cob.v,
                             !.i = IF el.i = Len(el.ceb_ballots) THEN 1 ELSE @ + 1]
         /\ pc' = IF el.i = Len(el.ceb_ballots) THEN "remove_candidates"
                  ELSE "to_candidate_order"
    ELSE /\ el' = Raised(cob, "eliminate_candidate_set")
         /\ pc' = "raised"

ConvertToCandidateOrder ==
    /\ pc = "to_candidate_order"
    /\ \E js \in ShuffleDraws(Len(el.ceb_ballots[el.i].candidates)) :
          CandidateOrderConverted(
              candidate_elimination_to_candidate_order(
                  el.ceb_ballots[el.i], ElectionKey.private_key_ring, js))
    /\ UNCHANGED <<sh, dj, bl>>

\* eliminate_candidate_set: remove_candidates on every ballot; then the end
\* of the round of stv_tally, or the return to the caller that called
\* eliminate_candidate_set itself.
RemoveCandidates ==
    /\ pc = "remove_candidates"
    /\ LET cob_ballots == [b \in DOMAIN el.cob_ballots |->
                              remove_candidates(el.cob_ballots[b], el.remaining)]
           c_rem == cob_ballots[1].candidates
       IN  /\ el' = [el EXCEPT !.cob_ballots = cob_ballots, !.c_rem = c_rem,
                               !.round = @ + 1, !.fpb_ballots = <<>>, !.ceb_ballots = <<>>,
                               !.i = 1]
           /\ pc' = IF el.direct THEN "eliminated" ELSE LoopTest(c_rem, el.offset, el.seats)
    /\ UNCHANGED <<sh, dj, bl>>

\* stv_tally after its loop: the remaining candidates are appended.
AppendRemaining ==
    /\ pc = "remaining"
    /\ LET result == el.result \o SelectSeq(el.c_rem, LAMBDA c : c # el.stop_candidate)
       IN  el' = [el EXCEPT !.result = result, !.out = Ok(result)]
    /\ pc' = "returned"
    /\ UNCHANGED <<sh, dj, bl>>

NextSTV ==
    \/ CastBallots
    \/ StvTally
    \/ ConvertToFirstPreference
    \/ Tally
    \/ Elect
    \/ Lowest
    \/ Eliminate
    \/ ConvertToCandidateElimination
    \/ UpdatePreferences
    \/ ConvertToCandidateOrder
    \/ RemoveCandidates
    \/ AppendRemaining

SpecSTV == InitSTV /\ [][NextSTV]_vars

\* The sum of the weights of the first b ballots whose top-ranked candidate
\* is the one at index i, as the election's ring decrypts them.
RECURSIVE SumTop(_, _, _)
SumTop(cob_ballots, i, b) ==
    IF b = 0 THEN 0
    ELSE SumTop(cob_ballots, i, b - 1)
         + (IF Plain(cob_ballots[b].preferences[i]) = Ok(1)
            THEN Plain(cob_ballots[b].weight).v ELSE 0)

\* compute_first_preference_tallies has just been called on el.cob_ballots.
TalliesCalled ==
    \/ pc \in {"elected", "lowest"}
    \/ pc = "raised" /\ el.raised_in = "compute_first_preference_tallies"

\* The ballots compute_first_preference_tallies was called on decrypt: their
\* weights and their preferences.
TalliesInputDecrypts ==
    \A b \in DOMAIN el.cob_ballots :
        /\ IsOk(Plain(el.cob_ballots[b].weight))
        /\ \A i \in DOMAIN el.cob_ballots[b].preferences :
              IsOk(Plain(el.cob_ballots[b].preferences[i]))

\* What compute_first_preference_tallies is to return for el.cob_ballots.
TalliesRight ==
    /\ pc # "raised"
    /\ Len(el.fpb_ballots) = Len(el.cob_ballots)
    /\ \A b \in DOMAIN el.cob_ballots :
          /\ el.fpb_ballots[b].candidates = el.cob_ballots[b].candidates
          /\ \A i \in DOMAIN el.cob_ballots[b].candidates :
                Plain(el.fpb_ballots[b].preferences[i])
                    = Plain(el.cob_ballots[b].preferences[i])
    /\ Len(el.tallies) = Len(el.c_rem)
    /\ \A i \in DOMAIN el.c_rem :
          el.tallies[i] = SumTop(el.cob_ballots, i, Len(el.cob_ballots))

\* C9: for a non-empty list of ballots that decrypt, with one candidate list,
\* compute_first_preference_tallies returns one FirstPreferenceBallot per
\* ballot, in the order of the ballots, and tallies[i] is the sum of the
\* weights of the ballots whose top-ranked candidate is the one at index i.
C9_FirstPreferenceTallies == (TalliesCalled /\ TalliesInputDecrypts) => TalliesRight

\* The same when every r drawn in the count is a unit modulo n and some
\* candidate remains.
UnitFirstPreferenceTallies ==
    (/\ TalliesCalled
     /\ TalliesInputDecrypts
     /\ el.non_units = el.cast_non_units
     /\ Len(el.c_rem) > 0) => TalliesRight

\* The same in the first round against the rankings and the weights the
\* voters entered.
UnitFirstRoundTallies ==
    (TalliesCalled /\ el.non_units = 0 /\ el.round = 0) =>
        /\ pc # "raised"
        /\ \A i \in DOMAIN el.candidates :
              el.tallies[i] = SumTop(
                  [b \in DOMAIN el.pis |->
                      [preferences |-> [k \in DOMAIN el.pis[b] |->
                                           encrypt(ElectionKey.public_key, el.pis[b][k], 1)],
                       weight |-> encrypt(ElectionKey.public_key, el.ws[b], 1)]],
                  i, Len(el.pis))

\* The number of candidates of the election other than the stop candidate.
OtherCandidates == Cardinality(Range(el.candidates) \ {el.stop_candidate})

\* What stv_tally is to do on a non-empty list of ballots: it raises
\* nothing, elects in no round more candidates than seats remain, and returns
\* min(seats, k) distinct candidates other than the stop candidate.
StvTallyRight ==
    /\ pc # "raised"
    /\ pc = "elected" => Cardinality(el.elected) <= el.seats
    /\ pc = "returned" =>
          /\ Len(el.result) = (IF el.seats_0 < OtherCandidates THEN el.seats_0
                               ELSE OtherCandidates)
          /\ \A i, j \in DOMAIN el.result : i # j => el.result[i] # el.result[j]
          /\ Range(el.result) \subseteq Range(el.candidates) \ {el.stop_candidate}

\* C8: for a non-empty list of ballots that decrypt, with one candidate list,
\* rankings that are permutations, positive weights and seats >= 1, stv_tally returns
\* exactly min(seats, k) distinct candidates, k being the number of candidates
\* other than the stop candidate, none of them the stop candidate, and in no
\* round elects more candidates than seats remain.
C8_StvTally == (Len(el.cob_ballots) > 0 /\ el.cast_non_units = 0) => StvTallyRight

\* The same when every r drawn is a unit modulo n.
UnitStvTally == (Len(el.cob_ballots) > 0 /\ el.non_units = 0) => StvTallyRight

\* The same when moreover every ballot has the weight 1.
UnitWeightStvTally ==
    (/\ Len(el.cob_ballots) > 0
     /\ el.non_units = 0
     /\ \A b \in DOMAIN el.ws : el.ws[b] = 1) => StvTallyRight

\* reweight_votes has just been called on el.fpb_ballots, with the elected,
\* the tallies and the quota of the round.
ReweightCalled ==
    \/ pc = "eliminate" /\ el.elected # {} /\ el.candidate_set = el.elected
    \/ pc = "raised" /\ el.raised_in = "reweight_votes"

\* The ballots reweight_votes was called on decrypt: every weight.
ReweightInputDecrypts ==
    \A b \in DOMAIN el.fpb_ballots :
        \A i \in DOMAIN el.fpb_ballots[b].weights : IsOk(Plain(el.fpb_ballots[b].weights[i]))

\* The least common multiple of a set of positive integers.
LeastCommonMultiple(T) ==
    CHOOSE d \in 1..prod(Ascending(T)) :
        /\ \A t \in T : d % t = 0
        /\ \A d2 \in 1..(d - 1) : \E t \in T : d2 % t # 0

\* The indices of the elected candidates, the weight ballot b had and the
\* index of the column it sat on (the first one if it sat on none).
ElectedIndices == {i \in DOMAIN el.c_rem : el.c_rem[i] \in el.elected}
OldWeight(b) ==
    LET sat == {i \in DOMAIN el.fpb_ballots[b].weights :
                   Plain(el.fpb_ballots[b].weights[i]).v # 0}
    IN  IF sat = {} THEN [w |-> 0, i |-> 1]
        ELSE LET i == CHOOSE k \in sat : TRUE
             IN  [w |-> Plain(el.fpb_ballots[b].weights[i]).v, i |-> i]

\* What reweight_votes is to return.
ReweightRight ==
    /\ pc # "raised"
    /\ el.d_lcm = LeastCommonMultiple({el.tallies[i] : i \in ElectedIndices})
    /\ Len(el.cob_ballots) = Len(el.fpb_ballots)
    /\ \A b \in DOMAIN el.cob_ballots :
          LET old == OldWeight(b)
              t_c == el.tallies[old.i]
          IN  /\ el.cob_ballots[b].candidates = el.fpb_ballots[b].candidates
              /\ el.cob_ballots[b].preferences = el.fpb_ballots[b].preferences
              /\ IF old.i \in ElectedIndices
                 THEN /\ (old.w * el.d_lcm * (t_c - el.q)) % t_c = 0
                      /\ Plain(el.cob_ballots[b].weight)
                             = Ok((old.w * el.d_lcm * (t_c - el.q)) \div t_c)
                 ELSE Plain(el.cob_ballots[b].weight) = Ok(old.w * el.d_lcm)

\* C13: reweight_votes returns D, the least common multiple of the tallies of
\* the elected, and one ballot per ballot with the same candidates and
\* preferences, whose weight decrypts to old * D * (t_c - q) / t_c when the
\* weight sat on an elected candidate c, the division being exact, and to
\* old * D otherwise.
C13_Reweighted == (ReweightCalled /\ ReweightInputDecrypts) => ReweightRight

\* The same when every r drawn is a unit modulo n.
UnitReweighted == (ReweightCalled /\ el.non_units = 0) => ReweightRight

\* The election check of a round has been made: stv_tally is at its test of
\* len(elected).
ElectionChecked == pc \in {"elected", "lowest"}

\* The candidates of c_rem that are not the stop candidate and have at least
\* the quota.
ReachedQuota ==
    {c \in Range(el.c_rem) : /\ c # el.stop_candidate
                             /\ \E k \in DOMAIN el.c_rem : /\ el.c_rem[k] = c
                                                           /\ el.tallies[k] >= el.quota}

\* C14: in every round the elected are the candidates of c_rem other than
\* the stop candidate whose tally is at least the quota; the stop candidate
\* is never elected, never in the result and never in the set that is
\* eliminated.
C14_ElectedAtQuota ==
    /\ ElectionChecked => el.elected = ReachedQuota
    /\ el.stop_candidate \notin el.elected
    /\ el.stop_candidate \notin Range(el.result)
    /\ pc \in {"eliminate", "to_candidate_elimination", "update_preferences",
               "to_candidate_order", "remove_candidates"}
          => el.stop_candidate \notin el.candidate_set

\* A candidate is elected with a tally that is the quota, not more.
ElectedWithQuota ==
    /\ pc = "elected"
    /\ \E k \in DOMAIN el.c_rem : /\ el.tallies[k] = el.quota
                                  /\ el.c_rem[k] \in el.elected

\* The stop candidate has the quota and is not elected; another candidate is
\* chosen for elimination.
StopWithQuota ==
    /\ pc = "eliminate"
    /\ el.elected = {}
    /\ \E k \in DOMAIN el.c_rem : /\ el.c_rem[k] = el.stop_candidate
                                  /\ el.tallies[k] >= el.quota
    /\ el.candidate_set # {}

\* The indices of c_rem at which the stop candidate is not.
OtherIndices == {j \in DOMAIN el.c_rem : el.c_rem[j] # el.stop_candidate}

\* The index of the smallest tally among them, the lowest of these indices.
SmallestTally ==
    CHOOSE j \in OtherIndices :
        \A k \in OtherIndices : \/ el.tallies[j] < el.tallies[k]
                                 \/ (el.tallies[j] = el.tallies[k] /\ j <= k)

\* C15: in a round in which no candidate reaches the quota exactly one
\* candidate is eliminated, the one with the smallest tally among those that
\* are not the stop candidate, the lowest index of c_rem deciding a tie (here
\* for the rounds before which every r drawn was a unit).
C15_LowestEliminated ==
    [][(pc = "lowest" /\ el.non_units = 0)
          => /\ pc' = "eliminate"
             /\ el'.candidate_set = {el.c_rem[SmallestTally]}]_vars

\* The same for the rounds in which a candidate other than the stop
\* candidate remains.
OtherLowestEliminated ==
    [][(pc = "lowest" /\ OtherIndices # {})
          => /\ pc' = "eliminate"
             /\ el'.candidate_set = {el.c_rem[SmallestTally]}]_vars

\* eliminate_candidate_set is at work on the ballots el.before, or has
\* returned and no candidate has been elected since.
EliminateEntered ==
    /\ pc \notin {"election", "elimination", "contest", "cast", "cast_for_elimination",
                  "eliminate", "raised"}
    /\ Len(el.before) > 0

\* The weights of the converted ballots and of the ballots
\* eliminate_candidate_set returns decrypt as the weights of the ballots
\* given did.
WeightsAsBefore ==
    EliminateEntered =>
        /\ \A b \in DOMAIN el.ceb_ballots :
               Plain(el.ceb_ballots[b].weight) = Plain(el.before[b].weight)
        /\ \A b \in DOMAIN el.cob_ballots :
               Plain(el.cob_ballots[b].weight) = Plain(el.before[b].weight)

\* A step of stv_tally other than reweight_votes keeps the weight of every
\* ballot.
WeightsKept ==
    (pc \notin {"election", "elimination", "contest", "elected"} /\ pc' # "raised")
        => /\ Len(el'.cob_ballots) = Len(el.cob_ballots)
           /\ \A b \in DOMAIN el.cob_ballots :
                  Plain(el'.cob_ballots[b].weight) = Plain(el.cob_ballots[b].weight)

\* C19: the two conversions of an elimination and eliminate_candidate_set
\* return ballots whose weights decrypt as the weights of the ballots given,
\* and in stv_tally no step but reweight_votes changes a weight.
C19_WeightUnchanged == []WeightsAsBefore /\ [][WeightsKept]_vars

\* eliminate_candidate_set has returned ballots whose weight is 2, the
\* weight they were cast with.
WeightTwoKept ==
    /\ pc \in {"to_first_preference", "remaining"}
    /\ el.round = 1
    /\ el.elected = {}
    /\ Len(el.before) > 0
    /\ Plain(el.before[1].weight) = Ok(2)
    /\ Plain(el.cob_ballots[1].weight) = Ok(2)

-----------------------------------------------------------------------------
(* remove_candidates on the ballots eliminate_candidate_set hands it: the  *)
(* candidates 1..m in order, every preference standing for its column.     *)

\* a ballot of this part has at most this many candidates:
MaxColumns == 9

\* The preference ciphertext in the column of candidate c.
Column(c) == [column_of |-> c]

NoRemoval == [candidates |-> <<>>, preferences |-> <<>>, candidate_set |-> {},
              eliminated |-> <<>>, remaining |-> <<>>, out |-> Raise("unset")]

InitRemove ==
    /\ pc = "removal"
    /\ bl = NoRemoval
    /\ sh = NoShares
    /\ dj = NoKey
    /\ el = NoElection

\* eliminate_candidate_set: the elimination tags and the set of the indices
\* that remain, for any candidate set.
TagEliminated ==
    /\ pc = "removal"
    /\ \E m \in 1..MaxColumns :
       \E candidate_set \in SUBSET (1..m) :
          LET candidates == [i \in 1..m |-> i]
              eliminated == [i \in 1..m |-> IF candidates[i] \in candidate_set THEN 1 ELSE 0]
          IN  bl' = [bl EXCEPT !.candidates = candidates,
                               !.preferences = [i \in 1..m |-> Column(candidates[i])],
                               !.candidate_set = candidate_set,
                               !.eliminated = eliminated,
                               !.remaining = iterate({i - 1 : i \in {k \in 1..m :
                                                                       eliminated[k] = 0}})]
    /\ pc' = "tagged"
    /\ UNCHANGED <<sh, dj, el>>

\* remove_candidates(cob, remaining_candidate_indices)
RemoveFromBallot ==
    /\ pc = "tagged"
    /\ bl' = [bl EXCEPT !.out = Ok(remove_candidates(
                            CandidateOrderBallot(bl.candidates, bl.preferences, 0),
                            bl.remaining))]
    /\ pc' = "removed"
    /\ UNCHANGED <<sh, dj, el>>

NextRemove == TagEliminated \/ RemoveFromBallot

SpecRemove == InitRemove /\ [][NextRemove]_vars

\* C11: the ballot eliminate_candidate_set returns has the original candidate
\* list with the members of the candidate set removed, the remaining
\* candidates in their original relative order, each with the preference of
\* its own column.
C11_RemainingInOrder ==
    pc = "removed" =>
        /\ bl.out.v.candidates = SelectSeq(bl.candidates, LAMBDA c : c \notin bl.candidate_set)
        /\ Len(bl.out.v.preferences) = Len(bl.out.v.candidates)
        /\ \A k \in DOMAIN bl.out.v.candidates :
              bl.out.v.preferences[k] = Column(bl.out.v.candidates[k])

\* Every remaining candidate is returned once, with the preference of its
\* own column, in whatever order.
RemainingWithColumns ==
    pc = "removed" =>
        /\ Range(bl.out.v.candidates) = Range(bl.candidates) \ bl.candidate_set
        /\ Len(bl.out.v.candidates) = Cardinality(Range(bl.candidates) \ bl.candidate_set)
        /\ \A k \in DOMAIN bl.out.v.candidates :
              bl.out.v.preferences[k] = Column(bl.out.v.candidates[k])

\* The order is the original one when fewer than nine candidates stand.
FewRemainingInOrder ==
    (pc = "removed" /\ Len(bl.candidates) < 9) =>
        bl.out.v.candidates = SelectSeq(bl.candidates, LAMBDA c : c \notin bl.candidate_set)

-----------------------------------------------------------------------------
(* eliminate_candidate_set called on ballots as they are cast, with any    *)
(* candidate set.                                                          *)

InitEliminate ==
    /\ pc = "elimination"
    /\ el = NoElection
    /\ sh = NoShares
    /\ dj = NoKey
    /\ bl = NoBallot

\* The ballots eliminate_candidate_set is called on, as Cast builds them.
CastForElimination ==
    /\ pc = "elimination"
    /\ \E candidates \in ElectionCandidates :
       \E B \in {b \in 0..MaxBallots : b * Len(candidates) <= MaxCells} :
       \E pis \in [1..B -> Rankings(Len(candidates))], ws \in [1..B -> 1..MaxWeight] :
       \E rs \in RDraws(NonUnitR(ElectionKey.public_key), B * (Len(candidates) + 1),
                        MaxOtherDraws) :
          LET m == Len(candidates)
          IN  el' = [el EXCEPT
                       !.candidates = candidates, !.pis = pis, !.ws = ws,
                       !.non_units = Others(rs), !.cast_non_units = Others(rs),
                       !.direct = TRUE,
                       !.cob_ballots =
                           [b \in 1..B |-> CandidateOrderBallot(
                               candidates,
                               [i \in 1..m |-> encrypt(ElectionKey.public_key, pis[b][i],
                                                       rs[(b - 1) * (m + 1) + i])],
                               encrypt(ElectionKey.public_key, ws[b], rs[b * (m + 1)]))]]
    /\ pc' = "cast_for_elimination"
    /\ UNCHANGED <<sh, dj, bl>>

\* eliminate_candidate_set(candidate_set, cob_ballots, ...): the call, and
\* the return of [] for no ballots.
CallEliminate ==
    /\ pc = "cast_for_elimination"
    /\ \E candidate_set \in SUBSET Range(el.candidates) :
          IF Len(el.cob_ballots) = 0
          THEN /\ el' = [el EXCEPT !.candidate_set = candidate_set]
               /\ pc' = "eliminated"
          ELSE /\ el' = [el EXCEPT !.candidate_set = candidate_set]
               /\ pc' = "eliminate"
    /\ UNCHANGED <<sh, dj, bl>>

NextEliminate ==
    \/ CastForElimination
    \/ CallEliminate
    \/ Eliminate
    \/ ConvertToCandidateElimination
    \/ UpdatePreferences
    \/ ConvertToCandidateOrder
    \/ RemoveCandidates

SpecEliminate == InitEliminate /\ [][NextEliminate]_vars

\* eliminate_candidate_set was called on ballots that decrypt and is over.
EliminateCalled ==
    /\ el.direct
    /\ el.cast_non_units = 0
    /\ pc \in {"eliminated", "raised"}

\* The number of candidates of the candidate set that ballot b ranks above
\* the candidate at index i.
EliminatedAbove(b, i) ==
    Cardinality({j \in DOMAIN el.candidates :
                    /\ el.candidates[j] \in el.candidate_set
                    /\ el.pis[b][j] < el.pis[b][i]})

\* The index of candidate c in the original candidate list.
IndexOf(c) == CHOOSE i \in DOMAIN el.candidates : el.candidates[i] = c

\* What the preferences are to be after the elimination.
PreferencesRight ==
    /\ pc # "raised"
    /\ Len(el.cob_ballots) = Len(el.pis)
    /\ \A b \in DOMAIN el.cob_ballots :
          /\ Len(el.cob_ballots[b].preferences) = Len(el.cob_ballots[b].candidates)
          /\ Range(el.cob_ballots[b].candidates) = Range(el.candidates) \ el.candidate_set
          /\ \A k \in DOMAIN el.cob_ballots[b].candidates :
                LET i == IndexOf(el.cob_ballots[b].candidates[k])
                IN  Plain(el.cob_ballots[b].preferences[k])
                        = Ok(el.pis[b][i] - EliminatedAbove(b, i))
          /\ {Plain(el.cob_ballots[b].preferences[k]).v :
                 k \in DOMAIN el.cob_ballots[b].preferences}
                = 1..(Len(el.candidates) - Cardinality(el.candidate_set))

\* C12: after eliminate_candidate_set on ballots whose preferences are
\* permutations of 1..m, each remaining candidate's preference decrypts to its
\* old preference minus the number of eliminated candidates ranked above it,
\* and the remaining preferences are a permutation of 1..m-|S|.
C12_PreferencesUpdated == EliminateCalled => PreferencesRight

\* The same when every r drawn is a unit modulo n.
UnitPreferencesUpdated == (EliminateCalled /\ el.non_units = 0) => PreferencesRight

\* With few candidates the candidate lists come back in their order.
UnitEliminateInOrder ==
    (EliminateCalled /\ el.non_units = 0) =>
        \A b \in DOMAIN el.cob_ballots :
            el.cob_ballots[b].candidates
                = SelectSeq(el.candidates, LAMBDA c : c \notin el.candidate_set)

-----------------------------------------------------------------------------
(* A contest as the web front end counts it: the candidates carry the ids  *)
(* of the database, the stop candidate is no candidate of the list and     *)
(* every ballot has the weight 1.                                          *)

\* The ids of the candidates of the contest, in ascending order.
ContestCandidates == <<7, 8, 9>>

InitContest ==
    /\ pc = "contest"
    /\ el = NoElection
    /\ sh = NoShares
    /\ dj = NoKey
    /\ bl = NoBallot

\* The ballots of the contest, one for each voter, as Cast builds them; the
\* r of their encryptions are 1.
CastContest ==
    /\ pc = "contest"
    /\ \E seats \in 1..MaxSeats :
       \E pis \in [1..MaxBallots -> Rankings(Len(ContestCandidates))] :
          LET m == Len(ContestCandidates)
          IN  el' = [el EXCEPT
                       !.candidates = ContestCandidates, !.stop_candidate = 0,
                       !.seats_0 = seats, !.pis = pis,
                       !.ws = [b \in 1..MaxBallots |-> 1],
                       !.cob_ballots =
                           [b \in 1..MaxBallots |-> CandidateOrderBallot(
                               ContestCandidates,
                               [i \in 1..m |-> encrypt(ElectionKey.public_key, pis[b][i], 1)],
                               encrypt(ElectionKey.public_key, 1, 1))]]
    /\ pc' = "cast"
    /\ UNCHANGED <<sh, dj, bl>>

NextContest ==
    \/ CastContest
    \/ StvTally
    \/ ConvertToFirstPreference
    \/ Tally
    \/ Elect
    \/ Lowest
    \/ Eliminate
    \/ ConvertToCandidateElimination
    \/ UpdatePreferences
    \/ ConvertToCandidateOrder
    \/ RemoveCandidates
    \/ AppendRemaining

SpecContest == InitContest /\ [][NextContest]_vars

\* The elected of a round in the order of their indices in c_rem.
ElectedInOrder == SelectSeq(el.c_rem, LAMBDA c : c \in el.elected)

\* C16: the candidates elected in a round are appended to the result in the
\* ascending order of their indices in c_rem, after the candidates elected
\* in the rounds before.
C16_AppendedInOrder ==
    [][(pc = "elected" /\ pc' = "eliminate" /\ el'.non_units = 0)
          => el'.result = el.result \o ElectedInOrder]_vars

\* The elected are appended after the candidates elected before, each of
\* them once, in some order.
AppendedInSomeOrder ==
    [][(pc = "elected" /\ pc' = "eliminate")
          => /\ Len(el'.result) = Len(el.result) + Cardinality(el.elected)
             /\ SubSeq(el'.result, 1, Len(el.result)) = el.result
             /\ Range(el'.result) = Range(el.result) \cup el.elected]_vars

\* The count of the contest on the votes themselves: ballot b ranks the
\* candidate c_rem[i] at P[b][i] and has the weight W[b].
PlainTop(prefs) == CHOOSE i \in DOMAIN prefs : \A k \in DOMAIN prefs : prefs[i] <= prefs[k]

RECURSIVE PlainSum(_, _, _, _)
PlainSum(P, W, i, b) ==
    IF b = 0 THEN 0
    ELSE PlainSum(P, W, i, b - 1) + (IF PlainTop(P[b]) = i THEN W[b] ELSE 0)

PlainTallies(c_rem, P, W) == [i \in DOMAIN c_rem |-> PlainSum(P, W, i, Len(P))]

\* The columns that remain when the candidates of S leave, in the order in
\* which remove_candidates keeps them.
PlainKept(c_rem, S) == iterate({i - 1 : i \in {k \in DOMAIN c_rem : c_rem[k] \notin S}})

\* The preferences of a ballot when the candidates of S have left.
PlainEliminate(c_rem, prefs, S, kept) ==
    [j \in DOMAIN kept |->
        prefs[kept[j] + 1]
        - Cardinality({k \in DOMAIN c_rem : /\ c_rem[k] \in S
                                            /\ prefs[k] < prefs[kept[j] + 1]})]

\* The weight of a ballot when the candidates of S have been elected with
\* the tallies and the quota, D being the least common multiple.
PlainReweight(c_rem, prefs, w, S, tallies, quota, D) ==
    IF c_rem[PlainTop(prefs)] \in S
    THEN (w * D * (tallies[PlainTop(prefs)] - quota)) \div tallies[PlainTop(prefs)]
    ELSE w * D

RECURSIVE PlainRounds(_, _, _, _, _, _)
\* The end of a round in which the candidates of S leave.
PlainNext(c_rem, P, W, quota, seats, result, S, kept) ==
    PlainRounds([j \in DOMAIN kept |-> c_rem[kept[j] + 1]],
                [b \in DOMAIN P |-> PlainEliminate(c_rem, P[b], S, kept)],
                W, quota, seats, result)

\* A round in which the candidates of S are elected.
PlainElected(c_rem, P, W, quota, seats, result, tallies, S, D) ==
    PlainNext(c_rem, P,
              [b \in DOMAIN W |-> PlainReweight(c_rem, P[b], W[b], S, tallies, quota, D)],
              quota * D, seats - Cardinality(S), result \o iterate(S), S,
              PlainKept(c_rem, S))

\* A round in which no candidate is elected: the first of the candidates
\* with the fewest votes leaves.
PlainLowest(c_rem, P, W, quota, seats, result, tallies, js) ==
    IF js = {} THEN Raise("TypeError")
    ELSE PlainNext(c_rem, P, W, quota, seats, result,
                   {c_rem[CHOOSE j \in js :
                              \A k \in js : \/ tallies[j] < tallies[k]
                                            \/ (tallies[j] = tallies[k] /\ j <= k)]},
                   PlainKept(c_rem, {c_rem[CHOOSE j \in js :
                              \A k \in js : \/ tallies[j] < tallies[k]
                                            \/ (tallies[j] = tallies[k] /\ j <= k)]}))

PlainRound(c_rem, P, W, quota, seats, result, tallies, S) ==
    IF S # {}
    THEN PlainElected(c_rem, P, W, quota, seats, result, tallies, S,
                      LeastCommonMultiple({tallies[k] : k \in {i \in DOMAIN c_rem :
                                                                 c_rem[i] \in S}}))
    ELSE PlainLowest(c_rem, P, W, quota, seats, result, tallies,
                     {j \in DOMAIN c_rem : c_rem[j] # el.stop_candidate})

PlainTallied(c_rem, P, W, quota, seats, result, tallies) ==
    PlainRound(c_rem, P, W, quota, seats, result, tallies,
               {c_rem[k] : k \in {i \in DOMAIN c_rem : /\ c_rem[i] # el.stop_candidate
                                                        /\ tallies[i] >= quota}})

PlainRounds(c_rem, P, W, quota, seats, result) ==
    IF Len(c_rem) = 0 /\ Len(c_rem) - el.offset > seats THEN Raise("ValueError")
    ELSE IF Len(c_rem) - el.offset > seats
    THEN PlainTallied(c_rem, P, W, quota, seats, result, PlainTallies(c_rem, P, W))
    ELSE Ok(result \o SelectSeq(c_rem, LAMBDA c : c # el.stop_candidate))

\* The count of the ballots pis with the weights ws.
PlainTally(pis, ws) ==
    PlainRounds(el.candidates, pis, ws, Len(pis) \div (el.seats_0 + 1) + 1, el.seats_0, <<>>)

\* stv_tally has ended, with a list or with an error.
TallyEnded == pc \in {"returned", "raised"}

\* The ballots in the opposite order.
Reversed(seq) == [i \in DOMAIN seq |-> seq[Len(seq) + 1 - i]]

\* C17: what stv_tally returns depends on the votes, the seats and the stop
\* candidate alone: it is the count of the votes themselves, whichever r the
\* encryptions drew and whichever permutations the shuffles drew.
C17_SameList == TallyEnded => el.out = PlainTally(el.pis, el.ws)

\* It is, when every r drawn is a unit; and the count of the votes
\* themselves does not depend on the order of the ballots.
UnitSameList ==
    (TallyEnded /\ el.non_units = 0)
        => /\ el.out = PlainTally(el.pis, el.ws)
           /\ PlainTally(el.pis, el.ws) = PlainTally(Reversed(el.pis), Reversed(el.ws))

-----------------------------------------------------------------------------
(* Ballot.shuffle on rows, as the test and the conversions call it.       *)

\* a call shuffles at most this many rows:
MaxRows == 2
\* of at most this many values each:
MaxRowLen == 3
\* the values being at most:
MaxEntry == 2

\* zip(*rows): the columns of the rows, as many as the shortest row has
\* values, and none when there is no row.
zip(rows) ==
    IF Len(rows) = 0 THEN <<>>
    ELSE [c \in 1..(CHOOSE n \in 0..Len(rows[1]) : /\ \A r \in DOMAIN rows : n <= Len(rows[r])
                                                   /\ \E r \in DOMAIN rows : n = Len(rows[r]))
             |-> [r \in DOMAIN rows |-> rows[r][c]]]

\* Ballot.shuffle(*rows): the columns are shuffled and zipped back to rows.
Ballot_shuffle(rows, js) == zip(shuffle(zip(rows), js))

NoShuffle == [rows |-> <<>>, js |-> <<>>, out |-> <<>>]

InitShuffle ==
    /\ pc = "shuffle"
    /\ bl = NoShuffle
    /\ sh = NoShares
    /\ dj = NoKey
    /\ el = NoElection

\* The rows of a call: any number of rows of one length.
PickRows ==
    /\ pc = "shuffle"
    /\ \E k \in 0..MaxRows, m \in 0..MaxRowLen :
       \E rows \in [1..k -> [1..m -> 0..MaxEntry]] :
          bl' = [NoShuffle EXCEPT !.rows = rows]
    /\ pc' = "rows"
    /\ UNCHANGED <<sh, dj, el>>

ShuffleRows ==
    /\ pc = "rows"
    /\ \E js \in ShuffleDraws(Len(zip(bl.rows))) :
          bl' = [bl EXCEPT !.js = js, !.out = Ballot_shuffle(bl.rows, js)]
    /\ pc' = "shuffled"
    /\ UNCHANGED <<sh, dj, el>>

NextShuffle == PickRows \/ ShuffleRows

SpecShuffle == InitShuffle /\ [][NextShuffle]_vars

\* out is rows under one permutation of their columns.
CommonPermutation(rows, out) ==
    /\ Len(out) = Len(rows)
    /\ \A r \in DOMAIN rows : Len(out[r]) = Len(rows[r])
    /\ \/ Len(rows) = 0
       \/ \E sigma \in Rankings(Len(rows[1])) :
              \A r \in DOMAIN rows : \A c \in DOMAIN rows[r] : out[r][c] = rows[r][sigma[c]]

\* C18: Ballot.shuffle on any number of rows of one length m returns as many
\* rows of length m, which are the rows given under one permutation of their
\* columns.
C18_CommonPermutation == pc = "shuffled" => CommonPermutation(bl.rows, bl.out)

\* It does when the rows have a value, or when there is no row.
ShuffledColumns ==
    (pc = "shuffled" /\ (Len(bl.rows) = 0 \/ Len(bl.rows[1]) > 0))
        => CommonPermutation(bl.rows, bl.out)

-----------------------------------------------------------------------------
(* Two keys: numbers encrypted under one and under the other are added and *)
(* subtracted.                                                             *)

\* the s of the two keys is at most:
MaxKeyS == 1

\* The pairs of safe primes of the two keys.
KeyPairs == {<<7, 11>>, <<5, 7>>}

\* The public keys keygen returns for them.
PublicKeys ==
    {key.v.public_key :
        key \in {k \in {keygen(16, s, threshold, n_shares, pq[1], pq[2],
                               [i \in 1..(threshold - 1) |-> 0],
                               [i \in 1..threshold |-> i]) :
                            s \in 1..MaxKeyS, n_shares \in 1..MaxKeyShares,
                            threshold \in 1..MaxKeyShares, pq \in KeyPairs} : IsOk(k)}}

NoKeys == [public_key |-> PublicKey(1, 1, 1, 1, 1), other_key |-> PublicKey(1, 1, 1, 1, 1),
           op |-> "none", x |-> Raise("unset"), y |-> Raise("unset"), c |-> Raise("unset")]

InitKeys ==
    /\ pc = "keys"
    /\ dj = NoKeys
    /\ sh = NoShares
    /\ bl = NoBallot
    /\ el = NoElection

\* keygen, twice.
TwoKeygens ==
    /\ pc = "keys"
    /\ \E public_key \in PublicKeys, other_key \in PublicKeys :
          dj' = [NoKeys EXCEPT !.public_key = public_key, !.other_key = other_key]
    /\ pc' = "two_keys"
    /\ UNCHANGED <<sh, bl, el>>

\* public_key.encrypt(a) and other_key.encrypt(b)
EncryptUnderEach ==
    /\ pc = "two_keys"
    /\ \E a \in 0..MaxPlain, b \in 0..MaxPlain :
       \E ra \in 1..2, rb \in 1..2 :
          dj' = [dj EXCEPT !.x = Ok(encrypt(dj.public_key, a, ra)),
                           !.y = Ok(encrypt(dj.other_key, b, rb))]
    /\ pc' = "encrypted_under_each"
    /\ UNCHANGED <<sh, bl, el>>

\* x + y
AddAcross ==
    /\ pc = "encrypted_under_each"
    /\ dj' = [dj EXCEPT !.op = "add", !.c = add(dj.x.v, dj.y.v)]
    /\ pc' = "combined"
    /\ UNCHANGED <<sh, bl, el>>

\* x - y
SubAcross ==
    /\ pc = "encrypted_under_each"
    /\ dj' = [dj EXCEPT !.op = "sub", !.c = sub(dj.x.v, dj.y.v)]
    /\ pc' = "combined"
    /\ UNCHANGED <<sh, bl, el>>

NextKeys == TwoKeygens \/ EncryptUnderEach \/ AddAcross \/ SubAcross

SpecKeys == InitKeys /\ [][NextKeys]_vars

\* C20: the sum and the difference of two EncryptedNumbers whose public keys
\* differ raise an error, and no EncryptedNumber comes of them.
C20_KeyMismatch ==
    (pc = "combined" /\ dj.public_key # dj.other_key) => dj.c = Raise("ValueError")

\* Two numbers under keys with the same n that differ in the threshold alone
\* have been added.
ThresholdMismatch ==
    /\ pc = "combined"
    /\ dj.op = "add"
    /\ dj.public_key.n = dj.other_key.n
    /\ dj.public_key.s = dj.other_key.s
    /\ dj.public_key.delta = dj.other_key.delta
    /\ dj.public_key.threshold # dj.other_key.threshold
    /\ dj.c = Raise("ValueError")

\* Under one key the sum and the difference are EncryptedNumbers.
SameKeyCombined ==
    (pc = "combined" /\ dj.public_key = dj.other_key) => IsOk(dj.c)

-----------------------------------------------------------------------------
(* keygen: its parameters and what it returns.                             *)

\* keygen has just ended, with the public key and the ring or with an error.
KeygenEnded == pc \in {"keyed", "keygen_raised"}

\* The parameters keygen refuses.
BadParameters ==
    \/ dj.args[1] < 16
    \/ dj.args[2] < 1
    \/ dj.args[3] < 1
    \/ dj.args[4] < dj.args[3]

\* The indices of the shares of the ring keygen returned.
ReturnedIndices == {dj.ring.v.private_key_shares[k].i : k \in DOMAIN dj.ring.v.private_key_shares}

\* C21: keygen raises for n_bits < 16, s < 1, threshold < 1 and
\* n_shares < threshold, and for every other parameters returns a public key
\* with n_shares key shares, whose indices are 1..n_shares.
C21_Keygen ==
    KeygenEnded =>
        IF BadParameters THEN dj.ring = Raise("ValueError")
        ELSE /\ pc = "keyed"
             /\ Len(dj.ring.v.private_key_shares) = dj.args[4]
             /\ ReturnedIndices = 1..dj.args[4]

\* It raises for them, and for every other parameters returns a public key
\* with threshold key shares, of different indices among 1..n_shares.
KeygenThresholdShares ==
    KeygenEnded =>
        IF BadParameters THEN dj.ring = Raise("ValueError")
        ELSE /\ pc = "keyed"
             /\ dj.public_key.threshold = dj.args[3]
             /\ dj.public_key.s = dj.args[2]
             /\ Len(dj.ring.v.private_key_shares) = dj.args[3]
             /\ Cardinality(ReturnedIndices) = dj.args[3]
             /\ ReturnedIndices \subseteq 1..dj.args[4]

-----------------------------------------------------------------------------
(* fake_tally: the count on the votes themselves, the weights being exact  *)
(* fractions <<numerator, denominator>>.                                   *)

Fraction(a, b) == <<a \div gcd(a, b), b \div gcd(a, b)>>
FractionSum(x, y) == Fraction(x[1] * y[2] + y[1] * x[2], x[2] * y[2])
FractionLess(x, y) == x[1] * y[2] < y[1] * x[2]

RECURSIVE FakeSum(_, _, _, _)
FakeSum(P, W, i, b) ==
    IF b = 0 THEN <<0, 1>>
    ELSE FractionSum(FakeSum(P, W, i, b - 1), IF PlainTop(P[b]) = i THEN W[b] ELSE <<0, 1>>)

\* ballot[2] * (tallies[vote_for] - quota) / tallies[vote_for]
FakeReweight(c_rem, prefs, w, S, tallies, quota) ==
    IF c_rem[PlainTop(prefs)] \in S
    THEN Fraction(w[1] * (tallies[PlainTop(prefs)][1] - quota * tallies[PlainTop(prefs)][2]),
                  w[2] * tallies[PlainTop(prefs)][1])
    ELSE w

\* The first index of the smallest of the tallies at the indices js.
FakeLowest(tallies, js) ==
    CHOOSE j \in js : \A k \in js : \/ FractionLess(tallies[j], tallies[k])
                                     \/ (~FractionLess(tallies[k], tallies[j]) /\ j <= k)

\* The columns that stay when the candidates of S leave, in their order.
FakeKept(c_rem, S) == SelectSeq([i \in DOMAIN c_rem |-> i], LAMBDA i : c_rem[i] \notin S)

RECURSIVE FakeRounds(_, _, _, _, _, _, _)
\* The end of a round in which the candidates of S leave.
FakeNext(c_rem, P, W, quota, seats, history, k, kept) ==
    FakeRounds([j \in DOMAIN kept |-> c_rem[kept[j]]],
               [b \in DOMAIN P |-> [j \in DOMAIN kept |-> P[b][kept[j]]]],
               W, quota, seats, history, k - 1)

FakeElected(c_rem, P, W, quota, seats, history, k, tallies, S) ==
    FakeNext(c_rem, P,
             [b \in DOMAIN W |-> FakeReweight(c_rem, P[b], W[b], S, tallies, quota)],
             quota, seats - Cardinality(S),
             Append(history, [elected |-> TRUE, set |-> S]), k, FakeKept(c_rem, S))

FakeEliminated(c_rem, P, W, quota, seats, history, k, S) ==
    FakeNext(c_rem, P, W, quota, seats,
             Append(history, [elected |-> FALSE, set |-> S]), k, FakeKept(c_rem, S))

FakeRound(c_rem, P, W, quota, seats, history, k, tallies, S, js) ==
    IF S # {} THEN FakeElected(c_rem, P, W, quota, seats, history, k, tallies, S)
    ELSE IF js = {}
    THEN [c_rem |-> c_rem, W |-> W, history |-> history, out |-> "TypeError"]
    ELSE FakeEliminated(c_rem, P, W, quota, seats, history, k,
                        {c_rem[FakeLowest(tallies, js)]})

FakeTallied(c_rem, P, W, quota, seats, history, k, tallies) ==
    FakeRound(c_rem, P, W, quota, seats, history, k, tallies,
              {c_rem[j] : j \in {i \in DOMAIN c_rem :
                                   /\ c_rem[i] # el.stop_candidate
                                   /\ ~FractionLess(tallies[i], <<quota, 1>>)}},
              {j \in DOMAIN c_rem : c_rem[j] # el.stop_candidate})

\* fake_tally up to the start of its round k, or to its end.
FakeRounds(c_rem, P, W, quota, seats, history, k) ==
    IF ~(Len(c_rem) - el.offset > seats)
    THEN [c_rem |-> c_rem, W |-> W, history |-> history, out |-> "returned"]
    ELSE IF k = 0
    THEN [c_rem |-> c_rem, W |-> W, history |-> history, out |-> "round"]
    ELSE IF Len(c_rem) = 0
    THEN [c_rem |-> c_rem, W |-> W, history |-> history, out |-> "IndexError"]
    ELSE FakeTallied(c_rem, P, W, quota, seats, history, k,
                     [i \in DOMAIN c_rem |-> FakeSum(P, W, i, Len(P))])

fake_tally(k) ==
    FakeRounds(el.candidates, el.pis, [b \in DOMAIN el.ws |-> <<el.ws[b], 1>>],
               Len(el.pis) \div (el.seats_0 + 1) + 1, el.seats_0, <<>>, k)

\* stv_tally is at the start of a round, or past its loop.
RoundStarts == (pc = "to_first_preference" /\ el.i = 1) \/ pc = "remaining"

\* The quota and the weights of stv_tally are those of the count fake with
\* exact fractions, multiplied by the product of the D of the rounds before,
\* and the same candidates were elected and eliminated in the same rounds.
ScaledAs(fake) ==
    /\ fake.out = (IF pc = "remaining" THEN "returned" ELSE "round")
    /\ fake.history = el.history
    /\ fake.c_rem = el.c_rem
    /\ el.quota = (Len(el.pis) \div (el.seats_0 + 1) + 1) * el.factor
    /\ \A b \in DOMAIN el.cob_ballots :
           /\ IsOk(Plain(el.cob_ballots[b].weight))
           /\ Plain(el.cob_ballots[b].weight).v * fake.W[b][2] = el.factor * fake.W[b][1]

\* C22: at the start of every round of stv_tally the quota and the weights
\* are those of fake_tally with exact fractions multiplied by the product of
\* the D of the rounds before, and both have elected and eliminated the same
\* candidates in the same rounds (here for ballots cast with r = 1).
C22_Scaled == (RoundStarts /\ el.cast_non_units = 0) => ScaledAs(fake_tally(el.round))

\* They are when every r drawn is a unit.
UnitScaled == (RoundStarts /\ el.non_units = 0) => ScaledAs(fake_tally(el.round))

-----------------------------------------------------------------------------
(* The end of stv_tally.                                                   *)

\* stv_tally is running: exactly then one of its steps is enabled.
Running == pc \notin {"election", "returned", "raised"}

\* Weak fairness of the steps of a running call, WF_vars(NextSTV) with
\* ENABLED <<NextSTV>>_vars written as the predicate it equals.
CarriedOn == []<>~Running \/ []<><<NextSTV>>_vars

\* stv_tally runs on: once the ballots are cast the call is made, and it is
\* carried on, statement after statement, until it returns or raises.
FairSTV ==
    /\ SpecSTV
    /\ WF_vars(StvTally)
    /\ WF_vars(Lowest)
    /\ WF_vars(RemoveCandidates)
    /\ WF_vars(AppendRemaining)
    /\ CarriedOn

\* stv_tally is called on a non-empty list of ballots cast with r = 1.
CalledOnBallots == pc = "cast" /\ Len(el.cob_ballots) > 0 /\ el.cast_non_units = 0

\* The same, every ballot having the weight 1 and no r drawn later being a
\* non-unit.
CalledOnUnitBallots ==
    /\ pc = "cast"
    /\ Len(el.cob_ballots) > 0
    /\ \A b \in DOMAIN el.ws : el.ws[b] = 1

\* The loop is entered and left by its test alone.
LoopTested ==
    /\ pc = "remaining" => Len(el.c_rem) - el.offset <= el.seats
    /\ pc \notin {"election", "cast", "remaining", "returned", "raised"}
          => Len(el.c_rem) - el.offset > el.seats

\* A round tallies, then elects and reweights or eliminates the lowest, and
\* takes at least one candidate out of c_rem.
RoundInOrder ==
    /\ (pc = "tally" /\ pc' # "raised") => pc' \in {"elected", "lowest"}
    /\ (pc \in {"elected", "lowest"} /\ pc' # "raised")
          => (pc' = "eliminate" /\ el'.candidate_set # {}
                                /\ el'.candidate_set \subseteq Range(el.c_rem))
    /\ pc = "remove_candidates" => Len(el'.c_rem) < Len(el.c_rem)

\* C23: stv_tally called on a non-empty list of ballots with seats >= 1
\* returns, without raising: every round takes at least one candidate out of
\* c_rem, a round tallies and then elects and reweights or eliminates, and
\* the loop stops as soon as len(c_rem) - offset <= seats.
C23_Terminates ==
    /\ CalledOnBallots ~> (pc = "returned")
    /\ []LoopTested
    /\ [][RoundInOrder]_vars

\* It does for ballots of weight 1 when every r drawn is a unit: the call
\* ends, and it has returned unless an r drawn was not a unit.
UnitWeightTerminates ==
    /\ CalledOnUnitBallots ~> (pc = "returned" \/ (pc = "raised" /\ el.non_units > 0))
    /\ []LoopTested
    /\ [][RoundInOrder]_vars

-----------------------------------------------------------------------------
(* A ballot converted to a CandidateEliminationBallot and straight back.   *)

\* The candidate lists of distinct labels, in any order.
LabelLists == UNION {Arrangements(1..MaxCandidates, m) : m \in 1..MaxCandidates}

InitTrip ==
    /\ pc = "trip"
    /\ bl = NoBallot
    /\ sh = NoShares
    /\ dj = NoKey
    /\ el = NoElection

\* CandidateOrderBallot(candidates, encrypt_list(preferences), encrypt(weight)),
\* every r drawn being 1.
CastForTrip ==
    /\ pc = "trip"
    /\ \E candidates \in LabelLists, w \in 1..MaxWeight :
       \E pi \in Rankings(Len(candidates)) :
          bl' = [bl EXCEPT
                   !.candidates = candidates, !.pi = pi, !.w = w,
                   !.ballot = Ok(CandidateOrderBallot(
                       candidates,
                       [i \in DOMAIN pi |-> encrypt(ElectionKey.public_key, pi[i], 1)],
                       encrypt(ElectionKey.public_key, w, 1)))]
    /\ pc' = "cast"
    /\ UNCHANGED <<sh, dj, el>>

\* candidate_order_to_candidate_elimination(ballot, eliminated, ...), for any
\* vector of 0 and 1.
ToCandidateElimination ==
    /\ pc = "cast"
    /\ LET n == Len(bl.candidates)
       IN  \E eliminated \in [1..n -> {0, 1}] :
           \E rs \in RDraws(NonUnitR(ElectionKey.public_key), 3 * n, MaxOtherDraws) :
           \E js \in ShuffleDraws(n) :
              bl' = [bl EXCEPT
                       !.eliminated = eliminated,
                       !.non_units = NonUnits(ElectionKey.public_key, rs),
                       !.ceb = candidate_order_to_candidate_elimination(
                                   bl.ballot.v, eliminated, ElectionKey.private_key_ring,
                                   ElectionKey.public_key,
                                   [i \in 1..n |-> rs[i]], [i \in 1..n |-> rs[n + i]], js,
                                   [i \in 1..n |-> rs[2 * n + i]])]
    /\ pc' = "candidate_elimination"
    /\ UNCHANGED <<sh, dj, el>>

\* candidate_elimination_to_candidate_order(ballot, private_key_ring) on the
\* ballot just returned; nothing to call when the conversion raised.
ToCandidateOrder ==
    /\ pc = "candidate_elimination"
    /\ IF IsOk(bl.ceb)
       THEN \E js \in ShuffleDraws(Len(bl.candidates)) :
               bl' = [bl EXCEPT !.cob = candidate_elimination_to_candidate_order(
                                           bl.ceb.v, ElectionKey.private_key_ring, js)]
       ELSE bl' = [bl EXCEPT !.cob = bl.ceb]
    /\ pc' = "candidate_order"
    /\ UNCHANGED <<sh, dj, el>>

NextTrip == CastForTrip \/ ToCandidateElimination \/ ToCandidateOrder

SpecTrip == InitTrip /\ [][NextTrip]_vars

\* The ballot that came back ranks every candidate of the ballot that was
\* cast as that ballot did.
SamePreferences ==
    /\ IsOk(bl.cob)
    /\ Range(bl.cob.v.candidates) = Range(bl.candidates)
    /\ Len(bl.cob.v.candidates) = Len(bl.candidates)
    /\ \A i \in DOMAIN bl.candidates : \A j \in DOMAIN bl.cob.v.candidates :
           bl.cob.v.candidates[j] = bl.candidates[i]
               => Plain(bl.cob.v.preferences[j]) = Ok(bl.pi[i])

\* C24: a CandidateOrderBallot of distinct labels ranked by a permutation,
\* converted to a CandidateEliminationBallot with any vector of 0 and 1 and
\* straight back, has the same candidate list in the same order and the same
\* decrypted preference for every candidate, whatever the shuffles draw.
C24_RoundTrip ==
    pc = "candidate_order" => (SamePreferences /\ bl.cob.v.candidates = bl.candidates)

\* When every r drawn is a unit every candidate comes back with its
\* preference, the candidates in ascending order: in the order of the ballot
\* when its labels were ascending.
UnitTripSorted ==
    (pc = "candidate_order" /\ bl.non_units = 0)
        => /\ SamePreferences
           /\ \A i, j \in DOMAIN bl.cob.v.candidates :
                  i < j => bl.cob.v.candidates[i] < bl.cob.v.candidates[j]

-----------------------------------------------------------------------------
(* The permutations Ballot.shuffle can draw.                               *)

\* at most this many columns are shuffled:
MaxShuffled == 5

\* One row of m different labels.
PickLabels ==
    /\ pc = "shuffle"
    /\ \E m \in 0..MaxShuffled : bl' = [NoShuffle EXCEPT !.rows = <<[c \in 1..m |-> c]>>]
    /\ pc' = "rows"
    /\ UNCHANGED <<sh, dj, el>>

NextLabels == PickLabels \/ ShuffleRows

SpecLabels == InitShuffle /\ [][NextLabels]_vars

\* The sequences of draws by which shuffle puts the columns in the order
\* sigma.
DrawsOf(columns, sigma) ==
    {js \in ShuffleDraws(Len(columns)) :
        shuffle(columns, js) = [c \in DOMAIN columns |-> columns[sigma[c]]]}

\* C25: Ballot.shuffle on m columns can put them in every one of the m!
\* orders, each by exactly one sequence of draws, draw i being taken among
\* i..m-1.
C25_EveryPermutationOnce ==
    /\ pc = "rows" =>
          /\ Cardinality(ShuffleDraws(Len(bl.rows[1]))) = factorial(Len(bl.rows[1]))
          /\ Cardinality(Rankings(Len(bl.rows[1]))) = factorial(Len(bl.rows[1]))
          /\ \A sigma \in Rankings(Len(bl.rows[1])) :
                 Cardinality(DrawsOf(zip(bl.rows), sigma)) = 1
    /\ pc = "shuffled" =>
          /\ (Len(bl.rows[1]) > 0 =>
                 /\ Len(bl.out) = 1 /\ Len(bl.out[1]) = Len(bl.rows[1])
                 /\ Range(bl.out[1]) = Range(bl.rows[1]))
          /\ \A js \in ShuffleDraws(Len(bl.rows[1])) :
                 shuffle(zip(bl.rows), js) = shuffle(zip(bl.rows), bl.js) => js = bl.js

\* Three columns have been put in the opposite order.
ColumnsReversed == pc = "shuffled" /\ bl.rows = <<<<1, 2, 3>>>> /\ bl.out = <<<<3, 2, 1>>>>

-----------------------------------------------------------------------------
(* The sort of the columns by decrypted preference.                        *)

\* A ballot whose preferences are any values among 1..m, every r drawn
\* being 1.
CastAnyPreferences ==
    /\ pc = "trip"
    /\ \E candidates \in ElectionCandidates :
       \E pi \in [1..Len(candidates) -> 1..Len(candidates)] :
          bl' = [bl EXCEPT
                   !.candidates = candidates, !.pi = pi, !.w = 1,
                   !.ballot = Ok(CandidateOrderBallot(
                       candidates,
                       [i \in DOMAIN pi |-> encrypt(ElectionKey.public_key, pi[i], 1)],
                       encrypt(ElectionKey.public_key, 1, 1)))]
    /\ pc' = "cast_any"
    /\ UNCHANGED <<sh, dj, el>>

\* to_candidate_elimination with the shuffle drawing js and every r drawn
\* being 1: what it returns is the table in the order its sort left it.
SortedByPreference(ballot, eliminated, js) ==
    candidate_order_to_candidate_elimination(
        ballot, eliminated, ElectionKey.private_key_ring, ElectionKey.public_key,
        [i \in DOMAIN eliminated |-> 1], [i \in DOMAIN eliminated |-> 1], js,
        [i \in DOMAIN eliminated |-> 1])

SortByPreference ==
    /\ pc = "cast_any"
    /\ \E eliminated \in [1..Len(bl.candidates) -> {0, 1}] :
       \E js \in ShuffleDraws(Len(bl.candidates)) :
          bl' = [bl EXCEPT !.eliminated = eliminated,
                           !.ceb = SortedByPreference(bl.ballot.v, eliminated, js)]
    /\ pc' = "sorted"
    /\ UNCHANGED <<sh, dj, el>>

NextSort == CastAnyPreferences \/ SortByPreference

SpecSort == InitTrip /\ [][NextSort]_vars

\* The place of column i when the columns are put in the order of their
\* keys, equal keys in the order of the columns.
PlaceByKey(keys, i) ==
    Cardinality({j \in DOMAIN keys : keys[j] < keys[i]})
    + Cardinality({j \in 1..i : keys[j] = keys[i]})

\* The sort has completed, whatever shuffle came before it has left the
\* same table, and the columns are in the order of their preferences, equal
\* preferences in the order of the columns.
SortedTable ==
    /\ IsOk(bl.ceb)
    /\ \A js \in ShuffleDraws(Len(bl.candidates)) :
           SortedByPreference(bl.ballot.v, bl.eliminated, js) = bl.ceb
    /\ \A i \in DOMAIN bl.candidates :
           /\ Plain(bl.ceb.v.candidates[PlaceByKey(bl.pi, i)]) = Ok(bl.candidates[i])
           /\ Plain(bl.ceb.v.preferences[PlaceByKey(bl.pi, i)]) = Ok(bl.pi[i])
           /\ Plain(bl.ceb.v.eliminated[PlaceByKey(bl.pi, i)]) = Ok(bl.eliminated[i])

\* C26: the sort of the columns by decrypted preference always completes and
\* is deterministic: columns of equal keys stay in the order of their
\* indices, and the sorted table does not depend on the shuffle before it.
C26_SortCompletes == pc = "sorted" => SortedTable

\* It is so when no two columns have the same preference.
DistinctKeysSorted ==
    (pc = "sorted" /\ \A i, j \in DOMAIN bl.pi : i # j => bl.pi[i] # bl.pi[j]) => SortedTable

-----------------------------------------------------------------------------
(* crm on its own, and as keygen calls it.                                 *)

\* crm is called on at most this many congruences:
MaxCongruences == 3
\* with residues 0..MaxResidue:
MaxResidue == 2
\* and moduli 1..MaxCrmModulus:
MaxCrmModulus == 5

\* Pairs of safe primes that one call of gen_safe_prime_pair can return (for
\* 3 and for 6 bits); with s > 1 the pair whose n^s * m the 32-bit integers
\* of the model checker hold.
SafePrimePairs(s) ==
    IF s = 1 THEN {<<7, 11>>, <<11, 7>>, <<47, 59>>, <<59, 47>>}
    ELSE {<<7, 11>>, <<11, 7>>}

InitCrm ==
    /\ pc = "crm"
    /\ dj = NoKey
    /\ sh = NoShares
    /\ bl = NoBallot
    /\ el = NoElection

\* crm(a_list, n_list)
Crm ==
    /\ pc = "crm"
    /\ \E k \in 1..MaxCongruences :
       \E a_list \in [1..k -> 0..MaxResidue], n_list \in [1..k -> 1..MaxCrmModulus] :
          dj' = [NoKey EXCEPT !.a_list = a_list, !.n_list = n_list,
                              !.out = crm(a_list, n_list)]
    /\ pc' = "crm_returned"
    /\ UNCHANGED <<sh, bl, el>>

\* keygen: d = crm(a_list=[0, 1], n_list=[m, n_s])
KeygenCrm ==
    /\ pc = "crm"
    /\ \E s \in 1..MaxS :
       \E pq \in SafePrimePairs(s) :
          LET m == ((pq[1] - 1) \div 2) * ((pq[2] - 1) \div 2)
              n_s == n_pow(pq[1] * pq[2], s)
          IN  dj' = [NoKey EXCEPT !.a_list = <<0, 1>>, !.n_list = <<m, n_s>>,
                                  !.out = crm(<<0, 1>>, <<m, n_s>>)]
    /\ pc' = "d_computed"
    /\ UNCHANGED <<sh, bl, el>>

NextCrm == Crm \/ KeygenCrm

SpecCrm == InitCrm /\ [][NextCrm]_vars

\* No two of the moduli have a common factor.
Coprime(n_list) == \A i, j \in DOMAIN n_list : i # j => gcd(n_list[i], n_list[j]) = 1

\* x is congruent to a_i modulo n_i for every i.
Congruent(x, a_list, n_list) ==
    \A i \in DOMAIN n_list : PyMod(x, n_list[i]) = PyMod(a_list[i], n_list[i])

\* C27: crm returns the x with 0 <= x < prod(n_list) that is congruent to
\* a_i modulo n_i for every i, and raises when two moduli are not coprime;
\* the d of keygen is 0 modulo m, 1 modulo n^s and 0 <= d < n^s * m.
C27_Crm ==
    pc \in {"crm_returned", "d_computed"} =>
        IF Coprime(dj.n_list)
        THEN /\ IsOk(dj.out)
             /\ 0 <= dj.out.v /\ dj.out.v < prod(dj.n_list)
             /\ Congruent(dj.out.v, dj.a_list, dj.n_list)
        ELSE ~IsOk(dj.out)

\* What crm returns is congruent to every a_i and not negative, and it
\* raises when two moduli are not coprime; the d of keygen is as stated.
CrmCongruent ==
    /\ pc \in {"crm_returned", "d_computed"} =>
          IF Coprime(dj.n_list)
          THEN /\ IsOk(dj.out)
               /\ 0 <= dj.out.v
               /\ Congruent(dj.out.v, dj.a_list, dj.n_list)
          ELSE dj.out = Raise("Exception")
    /\ pc = "d_computed" =>
          /\ IsOk(dj.out)
          /\ dj.out.v % dj.n_list[1] = 0
          /\ dj.out.v % dj.n_list[2] = 1
          /\ 0 <= dj.out.v /\ dj.out.v < dj.n_list[1] * dj.n_list[2]

-----------------------------------------------------------------------------
(* inv_mod on its own, in utils.py and in cryptovote/utils.py.             *)

\* inv_mod is called on the integers -MaxInverted..MaxInverted:
MaxInverted == 12
\* and the moduli 2..MaxInvModulus:
MaxInvModulus == 6

\* cryptovote/utils.py: gcd
RECURSIVE cryptovote_gcd(_, _)
cryptovote_gcd(a, b) == IF b = 0 THEN a ELSE cryptovote_gcd(b, PyMod(a, b))

\* cryptovote/utils.py: extended_euclidean
RECURSIVE cryptovote_extended_euclidean(_, _)
cryptovote_extended_euclidean(a, b) ==
    IF a = 0 THEN <<0, 1>>
    ELSE LET yx == cryptovote_extended_euclidean(PyMod(b, a), a)
         IN  <<yx[2] - FloorDiv(b, a) * yx[1], yx[1]>>

\* cryptovote/utils.py: inv_mod
cryptovote_inv_mod(a, m) ==
    LET a1 == IF a < 0 THEN m + a ELSE a
    IN  IF cryptovote_gcd(a1, m) # 1 THEN Raise("Exception")
        ELSE Ok(PyMod(cryptovote_extended_euclidean(a1, m)[1], m))

InitInv ==
    /\ pc = "inv_mod"
    /\ dj = NoKey
    /\ sh = NoShares
    /\ bl = NoBallot
    /\ el = NoElection

\* inv_mod(a, m), of the one module and of the other.
InvMod ==
    /\ pc = "inv_mod"
    /\ \E a \in (-MaxInverted)..MaxInverted, m \in 2..MaxInvModulus :
          dj' = [NoKey EXCEPT !.a = a, !.m = m, !.out = inv_mod(a, m),
                              !.x = cryptovote_inv_mod(a, m)]
    /\ pc' = "inverted"
    /\ UNCHANGED <<sh, bl, el>>

NextInv == InvMod

SpecInv == InitInv /\ [][NextInv]_vars

\* b is the inverse of a modulo m that is in 0..m-1, or the exception when
\* a has none.
InverseOf(b, a, m) ==
    IF gcd(a, m) = 1
    THEN IsOk(b) /\ 0 <= b.v /\ b.v < m /\ PyMod(a * b.v, m) = 1
    ELSE b = Raise("Exception")

\* C28: for m >= 2 and every integer a, positive or negative, with
\* gcd(a, m) = 1, inv_mod returns the b with 0 <= b < m and a * b mod m = 1;
\* for every other a it raises.
C28_InvMod ==
    pc = "inverted" => (InverseOf(dj.out, dj.a, dj.m) /\ InverseOf(dj.x, dj.a, dj.m))

\* It does for every a above -m.
InvModAboveMinusM ==
    (pc = "inverted" /\ dj.a > -dj.m)
        => (InverseOf(dj.out, dj.a, dj.m) /\ InverseOf(dj.x, dj.a, dj.m))

-----------------------------------------------------------------------------
(* prime_gen.py                                                            *)

\* gmpy2.is_prime, which is exact on numbers this small.
is_prime(n) == n >= 2 /\ \A d \in 2..(n - 1) : d > n \div d \/ n % d # 0

\* gmpy2.next_prime: the least prime above n.
RECURSIVE next_prime(_)
next_prime(n) == IF is_prime(n + 1) THEN n + 1 ELSE next_prime(n + 1)

\* 2^k
RECURSIVE TwoTo(_)
TwoTo(k) == IF k = 0 THEN 1 ELSE 2 * TwoTo(k - 1)

\* gmpy2.bit_set(x, k)
bit_set(x, k) == IF (x \div TwoTo(k)) % 2 = 1 THEN x ELSE x + TwoTo(k)

\* int.bit_length
RECURSIVE bit_length(_)
bit_length(n) == IF n = 0 THEN 0 ELSE 1 + bit_length(n \div 2)

\* gen_prime(n_bits), base being what randbits(n_bits) returns.
gen_prime(n_bits, base) == next_prime(bit_set(base, n_bits - 1))

\* One round of the loop of gen_safe_prime(n_bits): the p it returns, or 0
\* when the loop goes round again.
gen_safe_prime(n_bits, base) ==
    LET q == gen_prime(n_bits - 1, base)
    IN  IF is_prime(q) /\ is_prime(2 * q + 1) THEN 2 * q + 1 ELSE 0

\* gen_safe_prime_pair is called with every number of bits up to:
MaxBits == 7
\* and with the least number of bits keygen accepts:
KeygenBits == 16

\* What randbits(k) returns: any value for up to MaxBits bits, and for more
\* bits the values RandBelow draws.
RandBits(k) == IF k <= MaxBits THEN 0..(TwoTo(k) - 1) ELSE RandBelow(TwoTo(k))

NoPrimes == [n_bits |-> 0, base |-> 0, p |-> 0, q |-> 0]

InitPrimes ==
    /\ pc = "prime_gen"
    /\ dj = NoPrimes
    /\ sh = NoShares
    /\ bl = NoBallot
    /\ el = NoElection

\* gen_safe_prime_pair(n_bits)
GenSafePrimePair ==
    /\ pc = "prime_gen"
    /\ \E n_bits \in (2..MaxBits) \cup {KeygenBits} : dj' = [NoPrimes EXCEPT !.n_bits = n_bits]
    /\ pc' = "p"
    /\ UNCHANGED <<sh, bl, el>>

\* p = gen_safe_prime(n_bits): one round of its loop.
GenSafePrimeP ==
    /\ pc = "p"
    /\ \E base \in RandBits(dj.n_bits - 1) :
          /\ dj' = [dj EXCEPT !.base = base, !.p = gen_safe_prime(dj.n_bits, base)]
          /\ pc' = IF gen_safe_prime(dj.n_bits, base) # 0 THEN "q" ELSE "p"
    /\ UNCHANGED <<sh, bl, el>>

\* q = gen_safe_prime(n_bits), again while p == q: one round of its loop.
GenSafePrimeQ ==
    /\ pc = "q"
    /\ \E base \in RandBits(dj.n_bits - 1) :
          /\ dj' = [dj EXCEPT !.base = base, !.q = gen_safe_prime(dj.n_bits, base)]
          /\ pc' = IF gen_safe_prime(dj.n_bits, base) \notin {0, dj.p}
                    THEN "pair_returned" ELSE "q"
    /\ UNCHANGED <<sh, bl, el>>

NextPrimes == GenSafePrimePair \/ GenSafePrimeP \/ GenSafePrimeQ

SpecPrimes == InitPrimes /\ [][NextPrimes]_vars

\* p is a prime of the given number of bits, and (p - 1) / 2 is a prime.
SafePrimeOfBits(p, bits) ==
    /\ is_prime(p)
    /\ is_prime((p - 1) \div 2)
    /\ bit_length(p) \in bits

\* C29: gen_safe_prime(b) returns a prime of exactly b bits whose (p - 1) / 2
\* is a prime, and gen_safe_prime_pair(b) returns two different such primes.
C29_SafePrimes ==
    /\ pc = "q" => SafePrimeOfBits(dj.p, {dj.n_bits})
    /\ pc = "pair_returned" =>
          /\ SafePrimeOfBits(dj.p, {dj.n_bits})
          /\ SafePrimeOfBits(dj.q, {dj.n_bits})
          /\ dj.p # dj.q

\* What they return are safe primes of b or of b + 1 bits, the two of a
\* pair different.
SafePrimesOfMoreBits ==
    /\ pc = "q" => SafePrimeOfBits(dj.p, {dj.n_bits, dj.n_bits + 1})
    /\ pc = "pair_returned" =>
          /\ SafePrimeOfBits(dj.p, {dj.n_bits, dj.n_bits + 1})
          /\ SafePrimeOfBits(dj.q, {dj.n_bits, dj.n_bits + 1})
          /\ dj.p # dj.q

-----------------------------------------------------------------------------
(* damgard_jurik_reduce on its own.                                        *)

\* Products n of two different odd primes.
ReduceModuli == {15, 21, 35}

\* The least factor of n above 1.
LeastFactor(n) == CHOOSE d \in 2..n : n % d = 0 /\ \A e \in 2..(d - 1) : n % e # 0

InitReduce ==
    /\ pc = "reduce"
    /\ dj = NoKey
    /\ sh = NoShares
    /\ bl = NoBallot
    /\ el = NoElection

\* damgard_jurik_reduce(a, s, n) for a = (1 + n)^i mod n^(s+1), the primes
\* of n being larger than s.
Reduce ==
    /\ pc = "reduce"
    /\ \E n \in ReduceModuli, s \in 1..MaxS :
          /\ LeastFactor(n) > s
          /\ \E i \in 0..(n_pow(n, s) - 1) :
                LET a == pow(1 + n, i, n_pow(n, s + 1))
                IN  dj' = [NoKey EXCEPT !.n = n, !.s = s, !.i = i, !.a = a,
                                        !.out = damgard_jurik_reduce(a, s, n)]
    /\ pc' = "reduced"
    /\ UNCHANGED <<sh, bl, el>>

NextReduce == Reduce

SpecReduce == InitReduce /\ [][NextReduce]_vars

\* C30: for n a product of two different odd primes larger than s, s >= 1
\* and 0 <= i < n^s, damgard_jurik_reduce((1 + n)^i mod n^(s+1), s, n)
\* returns exactly i, the assertion of L never failing.
C30_Reduce == pc = "reduced" => dj.out = Ok(dj.i)

\* The assertion of L never fails and what is returned is i or i - n^s: i
\* itself when s = 1.
ReduceCongruent ==
    pc = "reduced" =>
        /\ IsOk(dj.out)
        /\ dj.out.v \in {dj.i, dj.i - n_pow(dj.n, dj.s)}
        /\ dj.s = 1 => dj.out.v = dj.i

=============================================================================
